---------------------------- MODULE Spec2Model ----------------------------
(***************************************************************************)
(* Package-health analysis core of the Python package manager GUI          *)
(* (src/PYLibrariesList_V1.py, class PackageManagerApp): the generation-   *)
(* stamped background scans, the single-consumer task queue, and the       *)
(* reverse-dependency index.                                               *)
(*                                                                         *)
(* Python strings that the code takes apart (requirement strings, package  *)
(* names) are sequences of one-character strings, so that re.split,        *)
(* str.strip and str.lower are computed and not assumed.                   *)
(***************************************************************************)
EXTENDS Integers, Sequences, FiniteSets, TLC

(***************************************************************************)
(* Bounds of the model.                                                    *)
(***************************************************************************)
\* highest generation stamp the model lets current_scan_id reach
MaxScanId == 2
\* number of damaged-package / vulnerability scans launched in one run
MaxToolScans == 1
\* packages in an input list of the reverse-index specification
MaxPkgs == 3
\* requirement strings in an input list of the reverse-index specification
MaxReqs == 2
\* packages in an input of the damage-classifier specification
MaxDmgPkgs == 2
\* collaborator answers (listed files, failures, report lines, unparseable
\* records) in an input of the damage-classifier specification
MaxAnswers == 2
\* rows in an input of the version specification
MaxVerItems == 2
\* version components in an input of the version specification
MaxComponents == 4
\* entries of the outdated map in an input of the matching specification
MaxOutdated == 2
\* commands handed to _run_pip_command in a run of the process specification
MaxCommands == 2
MaxUpPkgs == 2
MaxSortPkgs == 2
\* pip commands started in a run of the specification of the V2 application
MaxV2Commands == 2
\* presses of the Refresh button in a run of that specification
MaxV2Refreshes == 1
\* scans launched in a run of the status specification
MaxStScans == 3
\* progress messages a scan of the status specification emits
MaxStProgress == 2

(***************************************************************************)
(* Strings.                                                                *)
(***************************************************************************)
\* The characters in use, in code-point order (str comparison order).
Chars ==
    << "\t", " ", "!", "(", "-", ".", "0", "1", "2", "9", "<", "=", ">",
       "A", "B", "C", "N", "P", "[", "]", "_", "a", "b", "c", "i", "n", "p", "x", "~" >>

Ord(c) == CHOOSE i \in DOMAIN Chars : Chars[i] = c

\* str.lower() on one character
LowerChar(c) ==
    CASE c = "A" -> "a" [] c = "B" -> "b" [] c = "C" -> "c"
      [] c = "N" -> "n" [] c = "P" -> "p" [] OTHER -> c

Lower(s) == [i \in DOMAIN s |-> LowerChar(s[i])]

\* Python's s < t on strings: lexicographic by code point
RECURSIVE StrLess(_, _)
StrLess(s, t) ==
    IF t = << >> THEN FALSE
    ELSE IF s = << >> THEN TRUE
    ELSE IF Head(s) = Head(t) THEN StrLess(Tail(s), Tail(t))
    ELSE Ord(Head(s)) < Ord(Head(t))

\* the delimiter class of re.split(r'[<>=!~ (]', req_str)
Delims == {"<", ">", "=", "!", "~", " ", "("}

\* the characters str.strip() removes
Whitespace == {" ", "\t"}

\* re.split(r'[<>=!~ (]', s)[0]: the text before the first delimiter
RECURSIVE SplitHead(_)
SplitHead(s) ==
    IF s = << >> \/ Head(s) \in Delims THEN << >>
    ELSE << Head(s) >> \o SplitHead(Tail(s))

RECURSIVE LStrip(_)
LStrip(s) ==
    IF s # << >> /\ Head(s) \in Whitespace THEN LStrip(Tail(s)) ELSE s

RECURSIVE RStrip(_)
RStrip(s) ==
    IF s # << >> /\ s[Len(s)] \in Whitespace
    THEN RStrip(SubSeq(s, 1, Len(s) - 1)) ELSE s

\* str.strip()
Strip(s) == RStrip(LStrip(s))

\* req_name = re.split(r'[<>=!~ (]', req_str)[0].strip()
BareName(req_str) == Strip(SplitHead(req_str))

Range(f) == {f[i] : i \in DOMAIN f}

(***************************************************************************)
(* Package descriptors and the reverse-dependency index.                   *)
(***************************************************************************)
\* dist.metadata.get("Name", "N/A"): the marker of an undeterminable name
NA == << "N", "/", "A" >>

\* package names in use: "a", "b", "c", "pip"
nA == << "a" >>
nB == << "b" >>
nC == << "c" >>
nPip == << "p", "i", "p" >>

\* an empty dict / defaultdict(list)
EmptyDict == [k \in {} |-> << >>]

\* d[k].append(v) on a defaultdict(list)
DictAppend(d, k, v) ==
    IF k \in DOMAIN d
    THEN [d EXCEPT ![k] = Append(@, v)]
    ELSE [x \in DOMAIN d \cup {k} |-> IF x = k THEN << v >> ELSE d[x]]

\* a slip of the inner loop: an empty bare name is not skipped
RECURSIVE AddRequiresKeepEmpty(_, _, _)
AddRequiresKeepEmpty(rd, name, requires) ==
    IF requires = << >> THEN rd
    ELSE LET req_name == BareName(Head(requires))
             rd2 == IF req_name # name
                    THEN DictAppend(rd, req_name, name)
                    ELSE rd
         IN AddRequiresKeepEmpty(rd2, name, Tail(requires))

\* the inner loop of the index construction: one package's requirement strings
RECURSIVE AddRequires(_, _, _)
AddRequires(rd, name, requires) ==
    IF requires = << >> THEN rd
    ELSE LET req_name == BareName(Head(requires))
             rd2 == IF req_name # << >> /\ req_name # name
                    THEN DictAppend(rd, req_name, name)
                    ELSE rd
         IN AddRequires(rd2, name, Tail(requires))

RECURSIVE AddPackages(_, _)
AddPackages(rd, packages) ==
    IF packages = << >> THEN rd
    ELSE AddPackages(AddRequires(rd, Head(packages).name, Head(packages).requires),
                     Tail(packages))

\* a plausible slip: the index keyed by the depender instead of the dependency
RECURSIVE AddForward(_, _)
AddForward(rd, packages) ==
    IF packages = << >> THEN rd
    ELSE LET p == Head(packages)
             names == [i \in DOMAIN p.requires |-> BareName(p.requires[i])]
             rd2 == IF names # << >> THEN DictAppend(rd, p.name, names[1]) ELSE rd
         IN AddForward(rd2, Tail(packages))

BuildReverseDepsForward(packages) == AddForward(EmptyDict, packages)

\* reverse_deps = defaultdict(list); for pkg in packages: for req_str in ...
BuildReverseDeps(packages) == AddPackages(EmptyDict, packages)

(***************************************************************************)
(* Versions: the display string of _populate_tree and the sort key of      *)
(* PackageUtils.get_version_sort_key.                                      *)
(***************************************************************************)
\* The separator written between the installed and the latest version.  In
\* the source it is the three characters U+00E2 U+2020 U+2019, the same in
\* _populate_tree and in get_version_sort_key; each stands here as one
\* element.
Arrow == << "U+00E2", "U+2020", "U+2019" >>

\* an installed package that is not outdated has no latest version
NoLatest == << "-" >>

\* version_display of _populate_tree
VersionDisplay(version, latest) ==
    IF latest = NoLatest THEN version
    ELSE version \o << " " >> \o Arrow \o << " " >> \o latest

\* sep occurs in s at position i
OccursAt(s, sep, i) ==
    /\ i + Len(sep) - 1 <= Len(s)
    /\ \A k \in 1..Len(sep) : s[i + k - 1] = sep[k]

\* s.split(sep)[0]: the text before the first occurrence of sep
SplitBefore(s, sep) ==
    IF \E i \in 1..Len(s) : OccursAt(s, sep, i)
    THEN LET first == CHOOSE i \in 1..Len(s) :
                          /\ OccursAt(s, sep, i)
                          /\ \A j \in 1..(i - 1) : ~OccursAt(s, sep, j)
         IN SubSeq(s, 1, first - 1)
    ELSE s

Digits == {"0", "1", "2", "9"}

DigitValue(c) == CASE c = "0" -> 0 [] c = "1" -> 1 [] c = "2" -> 2 [] c = "9" -> 9

\* int() of a string of digits
RECURSIVE ToInt(_)
ToInt(ds) ==
    IF ds = << >> THEN 0
    ELSE 10 * ToInt(SubSeq(ds, 1, Len(ds) - 1)) + DigitValue(ds[Len(ds)])

\* s.split("."): the fields between the dots
RECURSIVE DotFields(_)
DotFields(s) ==
    IF \E i \in DOMAIN s : s[i] = "."
    THEN LET first == CHOOSE i \in DOMAIN s :
                          s[i] = "." /\ \A j \in 1..(i - 1) : s[j] # "."
         IN << SubSeq(s, 1, first - 1) >> \o DotFields(SubSeq(s, first + 1, Len(s)))
    ELSE << s >>

\* s is made of dot-separated integers
IsRelease(s) ==
    LET fields == DotFields(s)
    IN \A k \in DOMAIN fields :
           /\ fields[k] # << >>
           /\ \A i \in DOMAIN fields[k] : fields[k][i] \in Digits

\* a release without its trailing zeros, as packaging compares it
RECURSIVE TrimZeros(_)
TrimZeros(release) ==
    IF release # << >> /\ release[Len(release)] = 0
    THEN TrimZeros(SubSeq(release, 1, Len(release) - 1)) ELSE release

\* packaging.version.parse, for the release versions; any other string
\* raises InvalidVersion
ParseVersion(s) ==
    IF IsRelease(s)
    THEN [valid |-> TRUE,
          release |-> TrimZeros([k \in DOMAIN DotFields(s) |-> ToInt(DotFields(s)[k])])]
    ELSE [valid |-> FALSE, release |-> << >>]

\* a slip: the packaging branch is missing, the key is always the string
GetVersionSortKeyTextOnly(version_string, packaging_available) ==
    [version |-> FALSE, release |-> << >>,
     text |-> Strip(SplitBefore(version_string, Arrow))]

\* a slip: the whole display string is parsed
GetVersionSortKeyWhole(version_string, packaging_available) ==
    IF packaging_available
    THEN IF ParseVersion(Strip(version_string)).valid
         THEN [version |-> TRUE, release |-> ParseVersion(Strip(version_string)).release,
               text |-> << >>]
         ELSE [version |-> TRUE, release |-> << >>, text |-> << >>]
    ELSE [version |-> FALSE, release |-> << >>, text |-> Strip(version_string)]

\* a slip: the except clause is missing its fallback, the string is the key
GetVersionSortKeyNoFallback(version_string, packaging_available) ==
    LET base_version_str == Strip(SplitBefore(version_string, Arrow))
    IN IF packaging_available /\ ParseVersion(base_version_str).valid
       THEN [version |-> TRUE, release |-> ParseVersion(base_version_str).release,
             text |-> << >>]
       ELSE [version |-> FALSE, release |-> << >>, text |-> base_version_str]

\* PackageUtils.get_version_sort_key: a Version when packaging is there
\* (0.0.0 for an invalid string), the string itself when it is not
GetVersionSortKey(version_string, packaging_available) ==
    LET base_version_str == Strip(SplitBefore(version_string, Arrow))
    IN IF packaging_available
       THEN IF ParseVersion(base_version_str).valid
            THEN [version |-> TRUE, release |-> ParseVersion(base_version_str).release,
                  text |-> << >>]
            ELSE [version |-> TRUE, release |-> << >>, text |-> << >>]
       ELSE [version |-> FALSE, release |-> << >>, text |-> base_version_str]

\* tuple comparison of two releases
RECURSIVE ReleaseLess(_, _)
ReleaseLess(r, q) ==
    IF q = << >> THEN FALSE
    ELSE IF r = << >> THEN TRUE
    ELSE IF Head(r) = Head(q) THEN ReleaseLess(Tail(r), Tail(q))
    ELSE Head(r) < Head(q)

\* k1 < k2 as data.sort compares two keys of the same kind
KeyLess(k1, k2) ==
    IF k1.version THEN ReleaseLess(k1.release, k2.release)
    ELSE StrLess(k1.text, k2.text)

(***************************************************************************)
(* Outdated matching: _is_package_outdated.                                *)
(***************************************************************************)
\* re.sub(r"[-.]+", "_", name): every run of '-' and '.' becomes one '_'
RECURSIVE CollapseRuns(_)
CollapseRuns(s) ==
    IF s = << >> THEN << >>
    ELSE IF Head(s) \in {"-", "."}
    THEN IF Len(s) > 1 /\ s[2] \in {"-", "."} THEN CollapseRuns(Tail(s))
         ELSE << "_" >> \o CollapseRuns(Tail(s))
    ELSE << Head(s) >> \o CollapseRuns(Tail(s))

\* re.sub(r"[-.]+", "_", name).lower()
Normalize(name) == Lower(CollapseRuns(name))

\* the value returned for "not outdated"
None == [found |-> FALSE, name |-> << >>]

\* a slip: only the exact name is tried
IsPackageOutdatedExactOnly(pkg_name, outdated) ==
    IF \E i \in DOMAIN outdated : outdated[i].name = pkg_name
    THEN [found |-> TRUE, name |-> pkg_name]
    ELSE None

\* _is_package_outdated; outdated is the map in insertion order, and the
\* info returned is told by the key it is stored under
IsPackageOutdated(pkg_name, outdated) ==
    IF \E i \in DOMAIN outdated : outdated[i].name = pkg_name
    THEN [found |-> TRUE, name |-> pkg_name]
    ELSE LET hits == {i \in DOMAIN outdated :
                         Normalize(outdated[i].name) = Normalize(pkg_name)}
         IN IF hits = {} THEN None
            ELSE [found |-> TRUE,
                  name |-> outdated[CHOOSE i \in hits : \A j \in hits : i <= j].name]

(***************************************************************************)
(* State.                                                                  *)
(***************************************************************************)
VARIABLES
    all_packages,            \* self.all_packages: list of package descriptors
    outdated_packages,       \* self.outdated_packages: name -> latest version
    reverse_deps,            \* self.reverse_deps: bare name -> list of dependers
    orphaned_packages_cache, \* self.orphaned_packages_cache
    damaged_packages_cache,  \* self.damaged_packages_cache: unparseable dist-info paths
    vulnerabilities_cache,   \* self.vulnerabilities_cache: lowercased name -> advisories
    current_interpreter,     \* self.current_interpreter
    current_scan_id,         \* self.current_scan_id
    task_queue,              \* self.task_queue: callbacks waiting for the GUI thread
    threads,                 \* worker threads started by _run_in_thread, still running
    polling,                 \* root.after(100, self._process_queue) is pending
    load_timers,             \* pending root.after(..., self.initial_load) timers
    ui_busy,                 \* _update_ui_state: the gated buttons are disabled
    damaged_tree,            \* rows of the damaged-packages result view
    vuln_tree,               \* rows of the vulnerability result view
    cache,                   \* CacheManager files: interpreter -> saved snapshot
    scans,                   \* history: the scans in flight (worker running or
                             \* callback queued), by thread id
    issued,                  \* history: the stamps given to requested scans
    last_done,               \* history: the scan whose callback ran last
    idx_packages,   \* reverse-index specification: the package list given
    idx_index,      \* reverse-index specification: the index built from it
    idx_pc,         \* reverse-index specification: "input", "built", "classified"
    idx_orphans,    \* reverse-index specification: the orphan list computed
    dmg_world,      \* damage-classifier specification: what the scan reads
    dmg_options,    \* damage-classifier specification: the enabled checks
    dmg_first,      \* damage-classifier specification: result of the first run
    dmg_second,     \* damage-classifier specification: result of the second run
    dmg_pc,         \* damage-classifier specification: "input", "ran", "reran"
    ver_items,      \* version specification: installed and latest versions
    ver_packaging,  \* version specification: PACKAGING_AVAILABLE
    ver_keys,       \* version specification: the sort keys computed
    ver_pc,         \* version specification: "input" or "keyed"
    mt_name,        \* matching specification: the installed name looked up
    mt_outdated,    \* matching specification: outdated_packages, in insertion order
    mt_result,      \* matching specification: what _is_package_outdated returned
    mt_pc,          \* matching specification: "input" or "done"
    active_process, \* self.active_process: the registered process, 0 for None
    processes,      \* process specification: the state of each external process
    pip_pc,         \* process specification: where each command's worker stands
    gui_pc,         \* process specification: the handler the GUI thread is inside
    gui_cmd,        \* process specification: the command _pip_action will run
    proc_to_kill,   \* _terminate_active_process: its local proc_to_kill
    completions,    \* process specification: on_complete callbacks queued
    at_closing,     \* process specification: processes running when on_closing began
    pip_actions,    \* process specification: the commands started by _pip_action
    v2_installed,    \* V2: the names importlib.metadata.distributions() would find
    v2_all_packages, \* V2: self.all_packages
    v2_tree,         \* V2: the row ids of self.tree
    v2_selection,    \* V2: self.tree.selection()
    v2_delete_btn,   \* V2: self.delete_btn is enabled
    v2_busy,         \* V2: _update_ui_state(is_busy=True) is in effect
    v2_queue,        \* V2: self.task_queue
    v2_draining,     \* V2: _process_queue is inside its loop
    v2_cmds,         \* V2: the pip commands started, one worker each
    v2_loads,        \* V2: the _load_packages_task runs started
    v2_refreshes,    \* V2: presses of the Refresh button so far
    v2_tab,          \* V2: the tab of self.notebook that is shown
    st_scan_id,     \* status specification: self.current_scan_id
    st_launched,    \* status specification: scans launched so far
    st_scans,       \* status specification: the scans running
    st_queue,       \* status specification: the update_task entries of task_queue
    st_status,      \* status specification: the message the status bar shows
    st_label,       \* status specification: the message damaged_status_label shows
    st_last,         \* status specification: what the last update_task run did
    up_packages, \* upgrade specification: all_packages, name and installer
    up_outdated, \* upgrade specification: outdated_packages, in insertion order
    up_manager, \* upgrade specification: self.package_manager
    up_selected, \* upgrade specification: packages_to_upgrade
    up_pc, \* upgrade specification: "input" or "done"
    srt_all_packages, \* sort specification: self.all_packages
    srt_tree, \* sort specification: the row ids of self.tree, top to bottom
    srt_last_sort_column, \* sort specification: self.last_sort_column
    srt_last_sort_reverse, \* sort specification: self.last_sort_reverse
    srt_raised \* sort specification: the last handler raised in _sort_column

\* the authoritative snapshot and what is derived from it
snapshot_vars == << all_packages, outdated_packages, reverse_deps,
                    orphaned_packages_cache, damaged_packages_cache,
                    vulnerabilities_cache >>

app_vars == << snapshot_vars, current_interpreter, current_scan_id, task_queue,
               threads, polling, load_timers, ui_busy, damaged_tree, vuln_tree,
               cache, scans, issued, last_done >>

idx_vars == << idx_packages, idx_index, idx_pc, idx_orphans >>

dmg_vars == << dmg_world, dmg_options, dmg_first, dmg_second, dmg_pc >>

ver_vars == << ver_items, ver_packaging, ver_keys, ver_pc >>

mt_vars == << mt_name, mt_outdated, mt_result, mt_pc >>

\* the variables of the specifications of single functions
pip_vars == << active_process, processes, pip_pc, gui_pc, gui_cmd, proc_to_kill,
              completions, at_closing, pip_actions >>

v2_vars == << v2_installed, v2_all_packages, v2_tree, v2_selection,
             v2_delete_btn, v2_busy, v2_queue, v2_draining, v2_cmds, v2_loads,
             v2_refreshes, v2_tab >>

st_vars == << st_scan_id, st_launched, st_scans, st_queue, st_status, st_label,
             st_last >>

up_vars == << up_packages, up_outdated, up_manager, up_selected, up_pc >>

srt_vars == << srt_all_packages, srt_tree, srt_last_sort_column,
               srt_last_sort_reverse, srt_raised >>

fn_vars == << idx_vars, dmg_vars, ver_vars, mt_vars, pip_vars, v2_vars,
               st_vars, up_vars, srt_vars >>

\* what the steps of each of these specifications leave alone
idx_frame == << app_vars, dmg_vars, ver_vars, mt_vars, pip_vars, v2_vars,
               st_vars, up_vars, srt_vars >>

dmg_frame == << app_vars, idx_vars, ver_vars, mt_vars, pip_vars, v2_vars,
               st_vars, up_vars, srt_vars >>

ver_frame == << app_vars, idx_vars, dmg_vars, mt_vars, pip_vars, v2_vars,
               st_vars, up_vars, srt_vars >>

mt_frame == << app_vars, idx_vars, dmg_vars, ver_vars, pip_vars, v2_vars,
               st_vars, up_vars, srt_vars >>

pip_frame == << app_vars, idx_vars, dmg_vars, ver_vars, mt_vars, v2_vars,
               st_vars, up_vars, srt_vars >>

v2_frame == << app_vars, idx_vars, dmg_vars, ver_vars, mt_vars, pip_vars,
               st_vars, up_vars, srt_vars >>

st_frame == << app_vars, idx_vars, dmg_vars, ver_vars, mt_vars, pip_vars,
               v2_vars, up_vars, srt_vars >>

up_frame == << app_vars, idx_vars, dmg_vars, ver_vars, mt_vars, pip_vars,
               v2_vars, st_vars, srt_vars >>

srt_frame == << app_vars, idx_vars, dmg_vars, ver_vars, mt_vars, pip_vars,
               v2_vars, st_vars, up_vars >>

vars == << app_vars, fn_vars >>

(***************************************************************************)
(* The environments the application is pointed at, and what a worker can   *)
(* find there at the time it looks (the installed set changes under the    *)
(* application: installs, uninstalls, other tools).                        *)
(***************************************************************************)
Interps == {"envA", "envB"}

\* sys.executable: the interpreter running the application
SysExecutable == "envA"

\* one *.dist-info directory: its path, the Name its metadata gives (NA when
\* it gives none) and its Requires-Dist strings
DistInfo(env, dir, name, requires) ==
    [path |-> << env, dir >>, name |-> name, requires |-> requires]

\* the listings of *.dist-info directories a scan of env can meet
DiskChoices(env) ==
    IF env = "envA"
    THEN { << DistInfo("envA", "b-1.dist-info", nB, << >>),
              DistInfo("envA", "a-1.dist-info", nA, << << "b", ">", "=", "1" >> >>),
              DistInfo("envA", "x-1.dist-info", NA, << >>) >>,
           << DistInfo("envA", "a-1.dist-info", nA, << >>),
              DistInfo("envA", "a-2.dist-info", nA, << >>) >>,
           << >> }
    ELSE { << DistInfo("envB", "c-1.dist-info", nC, << << "a" >> >>) >>,
           << >> }

\* the answers `pip list --outdated` can give for env: name -> latest version
OutdatedChoices(env) ==
    IF env = "envA"
    THEN { EmptyDict, [n \in {nA} |-> "2.0"] }
    ELSE { EmptyDict, [n \in {nC} |-> "3.0"] }

\* the reports `pip check` can give: sequences of (package, requirement) lines
DepReports == { << >>, << [package |-> nA, requirement |-> "b>=2"] >> }

\* the parsed answers pip-audit can give
VulnChoices ==
    { [error |-> TRUE, vulns |-> EmptyDict],
      [error |-> FALSE, vulns |-> EmptyDict],
      [error |-> FALSE, vulns |-> [n \in {nA} |-> << "CVE-1" >>]] }

\* the check selections of the damaged-packages tool: the defaults of
\* __init__ (dependency check only) and no check at all
NoOptions == [check_deps |-> FALSE]
OptionChoices == { [check_deps |-> TRUE], [check_deps |-> FALSE] }

(***************************************************************************)
(* Helpers of the scan and of its callbacks.                               *)
(***************************************************************************)
\* PackageUtils.get_package_info_modern: the descriptor of one distribution
GetPackageInfoModern(dist) ==
    [name |-> dist.name, location |-> dist.path, requires |-> dist.requires]

\* the loop over all_dist_info_dirs: parsed descriptors, in listing order
RECURSIVE ScanPackages(_)
ScanPackages(listing) ==
    IF listing = << >> THEN << >>
    ELSE LET pkg_info == GetPackageInfoModern(Head(listing))
         IN (IF pkg_info.name # NA THEN << pkg_info >> ELSE << >>)
            \o ScanPackages(Tail(listing))

\* the loop over all_dist_info_dirs: the paths whose name cannot be determined
RECURSIVE ScanDamaged(_)
ScanDamaged(listing) ==
    IF listing = << >> THEN << >>
    ELSE (IF Head(listing).name = NA THEN << Head(listing).path >> ELSE << >>)
         \o ScanDamaged(Tail(listing))

\* what _load_packages_task returns for a listing
LoadResult(listing) ==
    LET packages == ScanPackages(listing)
    IN [packages |-> packages,
        reverse_deps |-> BuildReverseDeps(packages),
        damaged |-> ScanDamaged(listing)]

\* what _load_packages_task returns when site-packages cannot be located
LoadFailure == [packages |-> << >>, reverse_deps |-> EmptyDict, damaged |-> << >>]

\* sorted(..., key=lambda p: p['name'].lower()) is stable: insert after the
\* last element whose key is not greater
RECURSIVE InsertByName(_, _)
InsertByName(sorted, p) ==
    IF sorted = << >> THEN << p >>
    ELSE IF StrLess(Lower(p.name), Lower(Head(sorted).name))
         THEN << p >> \o sorted
         ELSE << Head(sorted) >> \o InsertByName(Tail(sorted), p)

RECURSIVE SortByName(_)
SortByName(packages) ==
    IF packages = << >> THEN << >>
    ELSE InsertByName(SortByName(SubSeq(packages, 1, Len(packages) - 1)),
                      packages[Len(packages)])

\* tree.insert("", tk.END, iid=pkg["name"], ...) raises TclError on an iid
\* that is already in the tree
PopulateRaises(packages) ==
    \E i, j \in DOMAIN packages : i < j /\ packages[i].name = packages[j].name

\* damaged_tree.insert(..., iid=problem['id']) for each problem, up to the
\* first iid that is already there
RECURSIVE InsertRows(_, _)
InsertRows(tree, problems) ==
    IF problems = << >> THEN [rows |-> tree, raised |-> FALSE]
    ELSE IF \E i \in DOMAIN tree : tree[i].id = Head(problems).id
         THEN [rows |-> tree, raised |-> TRUE]
         ELSE InsertRows(Append(tree, Head(problems)), Tail(problems))

\* a cache file of CacheManager
NoCache == [present |-> FALSE, packages |-> << >>, reverse_deps |-> EmptyDict,
            damaged_packages |-> << >>]

\* slips of the staleness test: the comparison turned round, and a test
\* that lets the previous generation through
IsStaleWrongWay(scan_id) == scan_id > current_scan_id

IsStaleOffByOne(scan_id) == scan_id + 1 < current_scan_id

\* scan_id != self.current_scan_id: the completion is stale
IsStale(scan_id) == scan_id # current_scan_id

\* a slip of the stamping: the counter is read but not advanced
NextScanIdStuck == current_scan_id

\* scan_id = self.current_scan_id + 1
NextScanId == current_scan_id + 1

(***************************************************************************)
(* The application: handlers of the GUI thread.                            *)
(***************************************************************************)
\* a worker thread started by _run_in_thread
Thread(tid, target, scan_id, on_complete, options) ==
    [tid |-> tid, target |-> target, scan_id |-> scan_id,
     on_complete |-> on_complete, options |-> options]

\* a (task, args) pair on task_queue; failed is history: the worker's
\* external query failed and the result is the value of its except clause
Msg(task, result, scan_id, tid, failed) ==
    [task |-> task, result |-> result, scan_id |-> scan_id, tid |-> tid,
     failed |-> failed]

\* history record of a launched scan: pre_switch becomes TRUE when the
\* interpreter is switched while the scan is in flight
Scan(kind, stamp) == [kind |-> kind, stamp |-> stamp, pre_switch |-> FALSE]

\* history: a scan is launched / its callback has run with the given outcome
Launched(sc, tid, kind, stamp) == (tid :> Scan(kind, stamp)) @@ sc

Finished(tid) == [t \in DOMAIN scans \ {tid} |-> scans[t]]

Done(tid, outcome) ==
    [tid |-> tid, kind |-> scans[tid].kind, stamp |-> scans[tid].stamp,
     pre_switch |-> scans[tid].pre_switch, outcome |-> outcome]

NoneDone == [tid |-> 0, kind |-> "none", stamp |-> 0, pre_switch |-> FALSE,
             outcome |-> "none"]

\* thread ids: a stamped scan is identified by its stamp, a tool scan by a
\* free slot -1, -2, ...
FreeToolTids == {0 - k : k \in 1..MaxToolScans} \ DOMAIN scans

Max(S) == CHOOSE x \in S : \A y \in S : y <= x

\* _start_full_refresh_chain: stamp a new scan and start _load_packages_task
StartFullRefreshChain(run_update_check) ==
    LET scan_id == NextScanId
        on_complete == IF run_update_check THEN "on_packages_loaded_then_check"
                       ELSE "on_installed_loaded"
    IN /\ ui_busy' = TRUE
       /\ current_scan_id' = scan_id
       /\ threads' = threads \cup
              {Thread(scan_id, "load", scan_id, on_complete, NoOptions)}
       /\ scans' = Launched(scans, scan_id, "load", scan_id)
       /\ issued' = issued \cup {scan_id}

\* initial_load, run by a root.after timer: show the cached snapshot of the
\* interpreter if there is a fresh one, then start a full refresh
InitialLoad ==
    /\ load_timers > 0
    /\ current_scan_id < MaxScanId
    /\ load_timers' = load_timers - 1
    /\ \E run_update_check \in BOOLEAN, fresh \in BOOLEAN :
         LET cache_data == cache[current_interpreter]
         IN IF cache_data.present /\ fresh
            THEN /\ all_packages' = cache_data.packages
                 /\ reverse_deps' = cache_data.reverse_deps
                 /\ damaged_packages_cache' = cache_data.damaged_packages
                 /\ IF PopulateRaises(cache_data.packages)
                    THEN UNCHANGED << ui_busy, current_scan_id, threads, scans, issued >>
                    ELSE StartFullRefreshChain(run_update_check)
            ELSE /\ UNCHANGED << all_packages, reverse_deps, damaged_packages_cache >>
                 /\ StartFullRefreshChain(run_update_check)
    /\ UNCHANGED << outdated_packages, orphaned_packages_cache, vulnerabilities_cache,
                    current_interpreter, task_queue, polling, damaged_tree,
                    vuln_tree, cache, last_done >>

\* refresh_installed_only (menu of the refresh button)
RefreshInstalledOnly ==
    /\ ~ui_busy
    /\ current_scan_id < MaxScanId
    /\ StartFullRefreshChain(FALSE)
    /\ UNCHANGED << snapshot_vars, current_interpreter, task_queue, polling,
                    load_timers, damaged_tree, vuln_tree, cache, last_done >>

\* refresh_and_check_updates (menu of the refresh button)
RefreshAndCheckUpdates ==
    /\ ~ui_busy
    /\ current_scan_id < MaxScanId
    /\ StartFullRefreshChain(TRUE)
    /\ UNCHANGED << snapshot_vars, current_interpreter, task_queue, polling,
                    load_timers, damaged_tree, vuln_tree, cache, last_done >>

\* check_for_updates_only (menu of the refresh button)
CheckForUpdatesOnly ==
    /\ ~ui_busy
    /\ current_scan_id < MaxScanId
    /\ all_packages # << >>
    /\ LET scan_id == NextScanId
       IN /\ ui_busy' = TRUE
          /\ current_scan_id' = scan_id
          /\ threads' = threads \cup
                 {Thread(scan_id, "outdated", scan_id, "on_outdated_checked", NoOptions)}
          /\ scans' = Launched(scans, scan_id, "outdated", scan_id)
          /\ issued' = issued \cup {scan_id}
    /\ UNCHANGED << snapshot_vars, current_interpreter, task_queue, polling,
                    load_timers, damaged_tree, vuln_tree, cache, last_done >>

\* _on_interpreter_selected with a selection other than the current one
OnInterpreterSelected ==
    /\ current_scan_id < MaxScanId
    /\ \E new_interpreter \in Interps \ {current_interpreter} :
         current_interpreter' = new_interpreter
    /\ current_scan_id' = current_scan_id + 1
    /\ all_packages' = << >>
    /\ outdated_packages' = EmptyDict
    /\ reverse_deps' = EmptyDict
    /\ load_timers' = load_timers + 1
    /\ scans' = [t \in DOMAIN scans |-> [scans[t] EXCEPT !.pre_switch = TRUE]]
    /\ UNCHANGED << orphaned_packages_cache, damaged_packages_cache,
                    vulnerabilities_cache, task_queue, threads, polling, ui_busy,
                    damaged_tree, vuln_tree, cache, issued, last_done >>

\* find_damaged_packages (button of the damaged-packages tool)
FindDamagedPackages ==
    /\ ~ui_busy
    /\ FreeToolTids # {}
    /\ all_packages # << >>
    /\ \E options \in OptionChoices :
         /\ options.check_deps \/ damaged_packages_cache # << >>
         /\ threads' = threads \cup
                {Thread(Max(FreeToolTids), "damaged", 0, "on_damaged_scan_complete",
                        options)}
    /\ ui_busy' = TRUE
    /\ damaged_tree' = << >>
    /\ scans' = Launched(scans, Max(FreeToolTids), "damaged", 0)
    /\ UNCHANGED << snapshot_vars, current_interpreter, current_scan_id, task_queue,
                    polling, load_timers, vuln_tree, cache, issued, last_done >>

\* all_installed_names - dependency_names - essential_packages
EssentialPackages ==
    {nPip, << "s", "e", "t", "u", "p", "t", "o", "o", "l", "s" >>,
     << "w", "h", "e", "e", "l" >>}

\* slips of the set difference: the index is not subtracted; the essential
\* packages are not subtracted
OrphanNamesKeepDependencies(packages, rdeps) ==
    {packages[i].name : i \in DOMAIN packages} \ EssentialPackages

OrphanNamesNoAllowlist(packages, rdeps) ==
    {packages[i].name : i \in DOMAIN packages} \ DOMAIN rdeps

OrphanNames(packages, rdeps) ==
    ({packages[i].name : i \in DOMAIN packages} \ DOMAIN rdeps) \ EssentialPackages

\* [pkg for pkg in self.all_packages if pkg['name'] in orphan_names]
RECURSIVE SelectOrphans(_, _)
SelectOrphans(packages, names) ==
    IF packages = << >> THEN << >>
    ELSE (IF Head(packages).name \in names THEN << Head(packages) >> ELSE << >>)
         \o SelectOrphans(Tail(packages), names)

\* find_orphaned_packages (button of the orphans tool); it runs on the GUI thread
FindOrphanedPackages ==
    /\ ~ui_busy
    /\ all_packages # << >>
    /\ orphaned_packages_cache' =
           SortByName(SelectOrphans(all_packages, OrphanNames(all_packages, reverse_deps)))
    /\ UNCHANGED << all_packages, outdated_packages, reverse_deps,
                    damaged_packages_cache, vulnerabilities_cache, current_interpreter,
                    current_scan_id, task_queue, threads, polling, load_timers, ui_busy,
                    damaged_tree, vuln_tree, cache, scans, issued, last_done >>

\* run_vulnerability_scan with pip-audit present in the target environment
RunVulnerabilityScan ==
    /\ ~ui_busy
    /\ FreeToolTids # {}
    /\ ui_busy' = TRUE
    /\ threads' = threads \cup
           {Thread(Max(FreeToolTids), "vuln", 0, "on_vulnerability_scan_complete",
                   NoOptions)}
    /\ scans' = Launched(scans, Max(FreeToolTids), "vuln", 0)
    /\ UNCHANGED << snapshot_vars, current_interpreter, current_scan_id, task_queue,
                    polling, load_timers, damaged_tree, vuln_tree, cache, issued,
                    last_done >>

(***************************************************************************)
(* The application: worker threads.  A worker reads the application state  *)
(* when it runs, not when it was started, and hands its result over by     *)
(* task_queue.put((on_complete, (result,))).                               *)
(***************************************************************************)
ShowError(title) == Msg("showerror", title, 0, 0, TRUE)

Completion(t, result) == Msg(t.on_complete, result, t.scan_id, t.tid, FALSE)

FailedCompletion(t, result) == Msg(t.on_complete, result, t.scan_id, t.tid, TRUE)

\* a slip of the hand-over: the worker resets the outdated map itself
HandOverAndReset(t, msgs) ==
    /\ task_queue' = task_queue \o msgs
    /\ threads' = threads \ {t}
    /\ outdated_packages' = EmptyDict
    /\ UNCHANGED << all_packages, reverse_deps, orphaned_packages_cache,
                    damaged_packages_cache, vulnerabilities_cache,
                    current_interpreter, current_scan_id, polling,
                    load_timers, ui_busy, damaged_tree, vuln_tree, cache, scans,
                    issued, last_done >>

\* how a worker hands over: it puts its messages on the queue and ends
HandOver(t, msgs) ==
    /\ task_queue' = task_queue \o msgs
    /\ threads' = threads \ {t}
    /\ UNCHANGED << snapshot_vars, current_interpreter, current_scan_id, polling,
                    load_timers, ui_busy, damaged_tree, vuln_tree, cache, scans,
                    issued, last_done >>

\* _load_packages_task: site-packages cannot be located
LoadPackagesTaskFails ==
    \E t \in threads :
        /\ t.target = "load"
        /\ HandOver(t, << ShowError("Environment Error"), FailedCompletion(t, LoadFailure) >>)

\* _load_packages_task: the scan of the current interpreter's site-packages
LoadPackagesTask ==
    \E t \in threads :
        /\ t.target = "load"
        /\ \E listing \in DiskChoices(current_interpreter) :
              HandOver(t, << Completion(t, LoadResult(listing)) >>)

\* _check_for_outdated_packages_task: the query fails
CheckOutdatedTaskFails ==
    \E t \in threads :
        /\ t.target = "outdated"
        /\ HandOver(t, << ShowError("Update Check Failed"), FailedCompletion(t, EmptyDict) >>)

\* _check_for_outdated_packages_task: the query answers
CheckOutdatedTask ==
    \E t \in threads :
        /\ t.target = "outdated"
        /\ \E outdated_map \in OutdatedChoices(current_interpreter) :
              HandOver(t, << Completion(t, outdated_map) >>)

\* the "Unparseable metadata" problems, one per path of damaged_packages_cache
UnparseableProblems(paths) ==
    [i \in DOMAIN paths |->
        [id |-> paths[i], name |-> << paths[i][2] >>,
         problem |-> "Unparseable metadata", details |-> paths[i]]]

\* the "Dependency conflict" problems, one per line of the pip check report
DependencyProblems(report) ==
    [i \in DOMAIN report |->
        [id |-> << "dep-" >> \o report[i].package, name |-> report[i].package,
         problem |-> "Dependency conflict", details |-> report[i].requirement]]

\* {p['id']: p for p in problems}.values(): the last record of each id, at the
\* position of the id's first occurrence
RECURSIVE UniqueProblems(_)
UniqueProblems(problems) ==
    IF problems = << >> THEN << >>
    ELSE LET rest == Tail(problems)
             id == Head(problems).id
             later == {i \in DOMAIN rest : rest[i].id = id}
             last == IF later = {} THEN Head(problems)
                     ELSE rest[CHOOSE i \in later : \A j \in later : j <= i]
             others == SelectSeq(rest, LAMBDA q : q.id # id)
         IN << last >> \o UniqueProblems(others)

\* one problem record: id, name, problem and details of the dict appended
Problem(id, name, problem, details) ==
    [id |-> id, name |-> name, problem |-> problem, details |-> details]

\* the metadata files looked for next to every listed file
MetaNames == << "METADATA", "RECORD", "WHEEL" >>

\* check #4 for one listed file of pkg: one problem per missing metadata file
MissingMetaProblems(pkg) ==
    LET missing == SelectSeq(MetaNames, LAMBDA m : m \in pkg.missing)
    IN [i \in DOMAIN missing |->
           Problem(<< "missing-meta-" >> \o pkg.name \o << "-", missing[i] >>,
                   pkg.name, "Missing metadata file", << missing[i] >>)]

\* a slip of check #2: a file with no recorded hash counts as a mismatch
HashProblemsUnrecorded(pkg, file) ==
    IF file.hash = "raise"
    THEN << Problem(<< "filecheck-fail-" >> \o pkg.name \o << "-" >> \o file.path,
                    pkg.name, "File check failed", file.path) >>
    ELSE IF file.hash \in {"mismatch", "none"}
    THEN << Problem(<< "hash-" >> \o pkg.name \o << "-" >> \o file.path,
                    pkg.name, "File hash mismatch", file.path) >>
    ELSE << >>

\* check #2 for one listed file of pkg: hashing raises, or the digest differs
HashProblems(pkg, file) ==
    IF file.hash = "raise"
    THEN << Problem(<< "filecheck-fail-" >> \o pkg.name \o << "-" >> \o file.path,
                    pkg.name, "File check failed", file.path) >>
    ELSE IF file.hash = "mismatch"
    THEN << Problem(<< "hash-" >> \o pkg.name \o << "-" >> \o file.path,
                    pkg.name, "File hash mismatch", file.path) >>
    ELSE << >>

\* the loop over dist.files, each file in its own try block
RECURSIVE FileProblems(_, _, _)
FileProblems(pkg, files, options) ==
    IF files = << >> THEN << >>
    ELSE (IF options.check_metadata_files THEN MissingMetaProblems(pkg) ELSE << >>)
         \o (IF options.check_hashes THEN HashProblems(pkg, Head(files)) ELSE << >>)
         \o FileProblems(pkg, Tail(files), options)

\* check #3 for pkg: the import of its module fails, or the check itself raises
ImportProblems(pkg) ==
    IF pkg.module = "fail"
    THEN << Problem(<< "import-" >> \o pkg.name, pkg.name, "Import failed", pkg.name) >>
    ELSE IF pkg.module = "raise"
    THEN << Problem(<< "import-fail-" >> \o pkg.name, pkg.name,
                    "Import check failed", pkg.name) >>
    ELSE << >>

\* the body of the loop over self.all_packages for one package
PackageProblems(pkg, options) ==
    IF pkg.lookup_fails
    THEN << Problem(<< "dist-fail-" >> \o pkg.name, pkg.name,
                    "Distribution lookup failed", pkg.name) >>
    ELSE (IF options.check_import THEN ImportProblems(pkg) ELSE << >>)
         \o (IF ~(options.check_hashes \/ options.check_metadata_files) THEN << >>
             ELSE IF pkg.files_raise
             THEN << Problem(<< "record-read-fail-" >> \o pkg.name, pkg.name,
                             "Corrupted RECORD file", pkg.name) >>
             ELSE FileProblems(pkg, pkg.files, options))

\* a slip of the loop: an exception of the hash check is not caught per
\* file and ends the scan of the remaining packages
RECURSIVE AllPackageProblemsAborting(_, _)
AllPackageProblemsAborting(packages, options) ==
    IF packages = << >> THEN << >>
    ELSE LET pkg == Head(packages)
             raises == /\ options.check_hashes
                       /\ ~pkg.lookup_fails /\ ~pkg.files_raise
                       /\ \E k \in DOMAIN pkg.files : pkg.files[k].hash = "raise"
         IN IF raises THEN << >>
            ELSE PackageProblems(pkg, options)
                 \o AllPackageProblemsAborting(Tail(packages), options)

\* the loop over self.all_packages
RECURSIVE AllPackageProblems(_, _)
AllPackageProblems(packages, options) ==
    IF packages = << >> THEN << >>
    ELSE PackageProblems(Head(packages), options)
         \o AllPackageProblems(Tail(packages), options)

\* a slip: the unparseable records are reported only when a check is enabled
DetectedProblemsWhenChecking(world, options) ==
    (IF options.check_deps \/ options.check_hashes \/ options.check_import
        \/ options.check_metadata_files
     THEN UnparseableProblems(world.unparseable) ELSE << >>)
    \o (IF options.check_deps THEN DependencyProblems(world.report) ELSE << >>)
    \o AllPackageProblems(world.packages, options)

\* the problems before deduplication, in the order they are appended
DetectedProblems(world, options) ==
    UnparseableProblems(world.unparseable)
    \o (IF options.check_deps THEN DependencyProblems(world.report) ELSE << >>)
    \o AllPackageProblems(world.packages, options)

\* a slip: a run leaves out the problems an earlier run has reported
DamageScanSkippingKnown(world, options, earlier) ==
    SelectSeq(UniqueProblems(DetectedProblems(world, options)),
              LAMBDA q : \A i \in DOMAIN earlier : earlier[i].id # q.id)

\* _scan_for_damaged_packages_task as a function of what it reads: the
\* answers of its collaborators (world) and the options; problems = [] at
\* each run, so what an earlier run returned plays no part
DamageScan(world, options, earlier) ==
    UniqueProblems(DetectedProblems(world, options))

\* _scan_for_damaged_packages_task: the unparseable-metadata records and the
\* dependency check
ScanForDamagedPackagesTask ==
    \E t \in threads :
        /\ t.target = "damaged"
        /\ \E report \in DepReports :
              LET problems ==
                      UnparseableProblems(damaged_packages_cache)
                      \o (IF t.options.check_deps THEN DependencyProblems(report)
                          ELSE << >>)
              IN HandOver(t, << Completion(t, UniqueProblems(problems)) >>)

\* _run_vulnerability_scan_task
RunVulnerabilityScanTask ==
    \E t \in threads :
        /\ t.target = "vuln"
        /\ \E result \in VulnChoices : HandOver(t, << Completion(t, result) >>)

(***************************************************************************)
(* The application: _process_queue.  The GUI thread takes the callbacks    *)
(* off task_queue one by one; only queue.Empty is caught, so a callback    *)
(* that raises ends the polling (the root.after that re-arms it is in the  *)
(* except clause).                                                         *)
(***************************************************************************)
\* the message _process_queue takes next
CanProcess(task) == polling /\ task_queue # << >> /\ Head(task_queue).task = task

\* self.cache_manager.save(self.current_interpreter, {...})
CacheSave(packages, rdeps, damaged) ==
    [cache EXCEPT ![current_interpreter] =
        [present |-> TRUE, packages |-> packages, reverse_deps |-> rdeps,
         damaged_packages |-> damaged]]

\* the part _on_installed_loaded and _on_packages_loaded_then_check share:
\* take the result over, save the cache, refill the package view
ApplyLoaded(result) ==
    /\ all_packages' = IF result.packages # << >> THEN SortByName(result.packages)
                       ELSE all_packages
    /\ reverse_deps' = IF result.packages # << >> THEN result.reverse_deps
                       ELSE reverse_deps
    /\ damaged_packages_cache' = result.damaged
    /\ cache' = CacheSave(all_packages', reverse_deps', damaged_packages_cache')

\* _on_installed_loaded
OnInstalledLoaded ==
    /\ CanProcess("on_installed_loaded")
    /\ LET m == Head(task_queue)
       IN /\ scans' = Finished(m.tid)
          /\ IF IsStale(m.scan_id)
             THEN /\ last_done' = Done(m.tid, "discarded")
                  /\ UNCHANGED << all_packages, reverse_deps, damaged_packages_cache,
                                  cache, polling, ui_busy >>
             ELSE /\ ApplyLoaded(m.result)
                  /\ last_done' = Done(m.tid, "applied")
                  /\ IF PopulateRaises(all_packages')
                     THEN polling' = FALSE /\ UNCHANGED ui_busy
                     ELSE ui_busy' = FALSE /\ UNCHANGED polling
    /\ task_queue' = Tail(task_queue)
    /\ UNCHANGED << outdated_packages, orphaned_packages_cache, vulnerabilities_cache,
                    current_interpreter, current_scan_id, threads, load_timers,
                    damaged_tree, vuln_tree, issued >>

\* _on_packages_loaded_then_check
OnPackagesLoadedThenCheck ==
    /\ CanProcess("on_packages_loaded_then_check")
    /\ LET m == Head(task_queue)
       IN IF IsStale(m.scan_id)
          THEN /\ last_done' = Done(m.tid, "discarded")
               /\ scans' = Finished(m.tid)
               /\ UNCHANGED << all_packages, reverse_deps, damaged_packages_cache,
                               cache, polling, threads >>
          ELSE /\ ApplyLoaded(m.result)
               /\ last_done' = Done(m.tid, "applied")
               /\ IF PopulateRaises(all_packages')
                  THEN /\ polling' = FALSE
                       /\ scans' = Finished(m.tid)
                       /\ UNCHANGED threads
                  ELSE /\ threads' = threads \cup
                              {Thread(m.scan_id, "outdated", m.scan_id,
                                      "on_outdated_checked", NoOptions)}
                       /\ scans' = Launched(Finished(m.tid), m.scan_id, "outdated",
                                            m.scan_id)
                       /\ UNCHANGED polling
    /\ task_queue' = Tail(task_queue)
    /\ UNCHANGED << outdated_packages, orphaned_packages_cache, vulnerabilities_cache,
                    current_interpreter, current_scan_id, load_timers, ui_busy,
                    damaged_tree, vuln_tree, issued >>

\* _on_outdated_checked
OnOutdatedChecked ==
    /\ CanProcess("on_outdated_checked")
    /\ LET m == Head(task_queue)
       IN /\ scans' = Finished(m.tid)
          /\ IF IsStale(m.scan_id)
             THEN /\ last_done' = Done(m.tid, "discarded")
                  /\ UNCHANGED << outdated_packages, polling, ui_busy >>
             ELSE /\ outdated_packages' = m.result
                  /\ last_done' = Done(m.tid, "applied")
                  /\ IF PopulateRaises(all_packages)
                     THEN polling' = FALSE /\ UNCHANGED ui_busy
                     ELSE ui_busy' = FALSE /\ UNCHANGED polling
    /\ task_queue' = Tail(task_queue)
    /\ UNCHANGED << all_packages, reverse_deps, orphaned_packages_cache,
                    damaged_packages_cache, vulnerabilities_cache, current_interpreter,
                    current_scan_id, threads, load_timers, damaged_tree, vuln_tree,
                    cache, issued >>

\* _on_damaged_scan_complete
OnDamagedScanComplete ==
    /\ CanProcess("on_damaged_scan_complete")
    /\ LET m == Head(task_queue)
           inserted == InsertRows(damaged_tree, m.result)
       IN /\ ui_busy' = FALSE
          /\ damaged_tree' = inserted.rows
          /\ polling' = ~inserted.raised
          /\ last_done' = Done(m.tid, "applied")
          /\ scans' = Finished(m.tid)
    /\ task_queue' = Tail(task_queue)
    /\ UNCHANGED << snapshot_vars, current_interpreter, current_scan_id, threads,
                    load_timers, vuln_tree, cache, issued >>

\* the rows of the vulnerability view: one per (package, advisory)
VulnRows(vulns) ==
    UNION {{<< n, vulns[n][i] >> : i \in DOMAIN vulns[n]} : n \in DOMAIN vulns}

\* _on_vulnerability_scan_complete
OnVulnerabilityScanComplete ==
    /\ CanProcess("on_vulnerability_scan_complete")
    /\ LET m == Head(task_queue)
       IN /\ ui_busy' = FALSE
          /\ last_done' = Done(m.tid, "applied")
          /\ scans' = Finished(m.tid)
          /\ IF m.result.error
             THEN /\ vuln_tree' = {}
                  /\ vulnerabilities_cache' = EmptyDict
                  /\ UNCHANGED polling
             ELSE /\ vulnerabilities_cache' = m.result.vulns
                  /\ vuln_tree' = VulnRows(m.result.vulns)
                  /\ polling' = ~PopulateRaises(all_packages)
    /\ task_queue' = Tail(task_queue)
    /\ UNCHANGED << all_packages, outdated_packages, reverse_deps,
                    orphaned_packages_cache, damaged_packages_cache,
                    current_interpreter, current_scan_id, threads, load_timers,
                    damaged_tree, cache, issued >>

\* messagebox.showerror, queued by a failing worker
OnShowError ==
    /\ CanProcess("showerror")
    /\ task_queue' = Tail(task_queue)
    /\ UNCHANGED << snapshot_vars, current_interpreter, current_scan_id, threads,
                    polling, load_timers, ui_busy, damaged_tree, vuln_tree, cache,
                    scans, issued, last_done >>

(***************************************************************************)
(* The specification of the application.                                   *)
(***************************************************************************)
AppInit ==
    /\ all_packages = << >>
    /\ outdated_packages = EmptyDict
    /\ reverse_deps = EmptyDict
    /\ orphaned_packages_cache = << >>
    /\ damaged_packages_cache = << >>
    /\ vulnerabilities_cache = EmptyDict
    /\ current_interpreter = SysExecutable
    /\ current_scan_id = 0
    /\ task_queue = << >>
    /\ threads = {}
    /\ polling = TRUE
    /\ load_timers = 1
    /\ ui_busy = FALSE
    /\ damaged_tree = << >>
    /\ vuln_tree = {}
    /\ cache = [i \in Interps |-> NoCache]
    /\ scans = << >>
    /\ issued = {}
    /\ last_done = NoneDone

IdxIdle ==
    /\ idx_packages = << >>
    /\ idx_index = EmptyDict
    /\ idx_pc = "input"
    /\ idx_orphans = << >>

\* the options of __init__: dependency check only
DefaultOptions ==
    [check_deps |-> TRUE, check_hashes |-> FALSE, check_import |-> FALSE,
     check_metadata_files |-> FALSE]

NoWorld == [unparseable |-> << >>, report |-> << >>, packages |-> << >>]

DmgIdle ==
    /\ dmg_world = NoWorld
    /\ dmg_options = DefaultOptions
    /\ dmg_first = << >>
    /\ dmg_second = << >>
    /\ dmg_pc = "input"

VerIdle ==
    /\ ver_items = << >>
    /\ ver_packaging = TRUE
    /\ ver_keys = << >>
    /\ ver_pc = "input"

MtIdle ==
    /\ mt_name = << >>
    /\ mt_outdated = << >>
    /\ mt_result = None
    /\ mt_pc = "input"

\* the commands of a run, and the external process each one spawns
Commands == 1 .. MaxCommands

\* self.active_process = None; no command has been given, the window is open
PipIdle ==
    /\ active_process = 0
    /\ processes = [c \in Commands |-> "none"]
    /\ pip_pc = [c \in Commands |-> "idle"]
    /\ gui_pc = "ready"
    /\ gui_cmd = 0
    /\ proc_to_kill = 0
    /\ completions = 0
    /\ at_closing = {}
    /\ pip_actions = {}

\* the packages installed when the V2 application starts: "a" and "b"
V2Installed == {nA, nB}

\* a run of _load_packages_task: submitted, then holding the list of
\* distributions it found, then finished
V2Load(pc, snapshot) == [pc |-> pc, snapshot |-> snapshot]

\* the V2 application after PackageManagerApp.__init__: all_packages = [],
\* an empty queue, and the first refresh_packages() under way
V2Idle ==
    /\ v2_installed = V2Installed
    /\ v2_all_packages = << >>
    /\ v2_tree = {}
    /\ v2_selection = {}
    /\ v2_delete_btn = FALSE
    /\ v2_busy = TRUE
    /\ v2_queue = << >>
    /\ v2_draining = FALSE
    /\ v2_cmds = << >>
    /\ v2_loads = << V2Load("submitted", {}) >>
    /\ v2_refreshes = 0
    /\ v2_tab = "manage"

\* a status message: the scan that emitted it and its number within the scan
StText(scan, n) == [scan |-> scan, n |-> n]

\* "Initializing..." in the status bar, nothing in the label, no scan yet
StIdle ==
    /\ st_scan_id = 0
    /\ st_launched = 0
    /\ st_scans = {}
    /\ st_queue = << >>
    /\ st_status = StText(0, 0)
    /\ st_label = StText(0, 0)
    /\ st_last = [stale |-> FALSE, changed |-> FALSE]

\* package_manager is 'pip' until uv is detected (770)
UpIdle ==
    /\ up_packages = << >>
    /\ up_outdated = << >>
    /\ up_manager = "pip"
    /\ up_selected = << >>
    /\ up_pc = "input"

\* last_sort_column = 'Name', last_sort_reverse = False (767-768)
SrtIdle ==
    /\ srt_all_packages = << >>
    /\ srt_tree = << >>
    /\ srt_last_sort_column = "Name"
    /\ srt_last_sort_reverse = FALSE
    /\ srt_raised = FALSE

FnIdle ==
    IdxIdle /\ DmgIdle /\ VerIdle /\ MtIdle /\ PipIdle /\ V2Idle /\ StIdle /\ UpIdle
    /\ SrtIdle

Init == AppInit /\ FnIdle

Next ==
    \/ InitialLoad /\ UNCHANGED fn_vars
    \/ RefreshInstalledOnly /\ UNCHANGED fn_vars
    \/ RefreshAndCheckUpdates /\ UNCHANGED fn_vars
    \/ CheckForUpdatesOnly /\ UNCHANGED fn_vars
    \/ OnInterpreterSelected /\ UNCHANGED fn_vars
    \/ FindDamagedPackages /\ UNCHANGED fn_vars
    \/ FindOrphanedPackages /\ UNCHANGED fn_vars
    \/ RunVulnerabilityScan /\ UNCHANGED fn_vars
    \/ LoadPackagesTaskFails /\ UNCHANGED fn_vars
    \/ LoadPackagesTask /\ UNCHANGED fn_vars
    \/ CheckOutdatedTaskFails /\ UNCHANGED fn_vars
    \/ CheckOutdatedTask /\ UNCHANGED fn_vars
    \/ ScanForDamagedPackagesTask /\ UNCHANGED fn_vars
    \/ RunVulnerabilityScanTask /\ UNCHANGED fn_vars
    \/ OnInstalledLoaded /\ UNCHANGED fn_vars
    \/ OnPackagesLoadedThenCheck /\ UNCHANGED fn_vars
    \/ OnOutdatedChecked /\ UNCHANGED fn_vars
    \/ OnDamagedScanComplete /\ UNCHANGED fn_vars
    \/ OnVulnerabilityScanComplete /\ UNCHANGED fn_vars
    \/ OnShowError /\ UNCHANGED fn_vars

Spec == Init /\ [][Next]_vars

(***************************************************************************)
(* Claims about the scan coordinator (specification Spec).                 *)
(***************************************************************************)
\* the callbacks that complete a generation-stamped scan
StampedCallbacks ==
    {"on_installed_loaded", "on_packages_loaded_then_check", "on_outdated_checked"}

LoadCallbacks == {"on_installed_loaded", "on_packages_loaded_then_check"}

\* the callbacks that complete any background scan
ScanCallbacks ==
    StampedCallbacks \cup {"on_damaged_scan_complete", "on_vulnerability_scan_complete"}

\* this step is _process_queue running the callback at the head of the queue
HeadRuns == polling /\ task_queue # << >> /\ task_queue' = Tail(task_queue)

\* this step is a worker thread ending: it is the only kind of step that
\* removes a thread
WorkerStep == threads' # threads /\ threads' \subseteq threads

\* C1: a package-load or outdated-check completion whose stamp is no longer
\* current_scan_id leaves all_packages, reverse_deps, damaged_packages_cache
\* and outdated_packages as they were just before the callback ran.
C1_StaleCompletionIsInert ==
    [][(/\ HeadRuns
        /\ Head(task_queue).task \in StampedCallbacks
        /\ Head(task_queue).scan_id # current_scan_id)
       => UNCHANGED << all_packages, reverse_deps, damaged_packages_cache,
                       outdated_packages >>]_vars

\* a stale completion has run while a snapshot was in place
C1_Witness ==
    /\ last_done.outcome = "discarded"
    /\ last_done.kind \in {"load", "outdated"}
    /\ last_done.stamp < current_scan_id
    /\ all_packages # << >>

\* C2: whenever the result of a stamped scan is applied, that scan holds the
\* highest stamp issued so far, in whatever order the scans finish.
C2_LastRequestedWins ==
    [][(/\ last_done' # last_done
        /\ last_done'.outcome = "applied"
        /\ last_done'.kind \in {"load", "outdated"})
       => last_done'.stamp = Max(issued)]_vars

\* the newest scan was applied while an older stamped scan was still in flight
C2_Witness ==
    /\ last_done.outcome = "applied"
    /\ last_done.kind = "load"
    /\ \E t \in DOMAIN scans :
         scans[t].kind \in {"load", "outdated"} /\ scans[t].stamp < last_done.stamp

\* C3: no background scan that was in flight when the interpreter was
\* switched has its result applied or shown afterwards.
C3_NoScanAppliedAcrossSwitch ==
    ~(last_done.outcome = "applied" /\ last_done.pre_switch)

AsSets(rdeps) == [k \in DOMAIN rdeps |-> Range(rdeps[k])]

\* C5: in every reachable state reverse_deps, orphaned_packages_cache and
\* damaged_packages_cache come from the snapshot held in all_packages: the
\* index is the index of all_packages, a computed orphan list is the orphan
\* list of all_packages, and every unparseable record lies in the
\* environment of all_packages, the current one.
C5_DerivedFromOneSnapshot ==
    /\ AsSets(reverse_deps) = AsSets(BuildReverseDeps(all_packages))
    /\ orphaned_packages_cache # << >> =>
           orphaned_packages_cache =
               SortByName(SelectOrphans(all_packages,
                                        OrphanNames(all_packages, reverse_deps)))
    /\ \A i \in DOMAIN damaged_packages_cache :
           damaged_packages_cache[i][1] = current_interpreter

\* C6: when a non-stale package-load scan that did not fail completes,
\* all_packages and reverse_deps become the list (in the callback's name
\* order) and the index of that scan, also when the list is empty.
C6_SnapshotFullyReplaced ==
    [][(/\ HeadRuns
        /\ Head(task_queue).task \in LoadCallbacks
        /\ Head(task_queue).scan_id = current_scan_id
        /\ ~Head(task_queue).failed)
       => /\ all_packages' = SortByName(Head(task_queue).result.packages)
          /\ reverse_deps' = Head(task_queue).result.reverse_deps]_vars

\* C7: the completion callback of a package-load scan that failed to locate
\* site-packages leaves all_packages, reverse_deps, damaged_packages_cache
\* and outdated_packages as they were.
C7_FailedScanKeepsSnapshot ==
    [][(/\ HeadRuns
        /\ Head(task_queue).task \in LoadCallbacks
        /\ Head(task_queue).failed)
       => UNCHANGED << all_packages, reverse_deps, damaged_packages_cache,
                       outdated_packages >>]_vars

\* C8: a step of a worker thread changes none of all_packages, reverse_deps,
\* outdated_packages, damaged_packages_cache, orphaned_packages_cache and
\* vulnerabilities_cache; what it does is put its messages on task_queue.
C8_OnlyGuiThreadWrites ==
    [][WorkerStep =>
          /\ UNCHANGED snapshot_vars
          /\ Len(task_queue') > Len(task_queue)
          /\ SubSeq(task_queue', 1, Len(task_queue)) = task_queue]_vars

\* a worker has handed a scan result over while a snapshot was in place, and
\* the callback has not run yet
C8_Witness ==
    /\ all_packages # << >>
    /\ outdated_packages # EmptyDict
    /\ threads = {}
    /\ \E i \in DOMAIN task_queue : task_queue[i].task \in ScanCallbacks

\* C9: a scan whose worker has returned gets its completion callback run:
\* while a completion callback is on the queue, _process_queue is still
\* scheduled to take it.
C9_QueuedCompletionWillRun ==
    \A i \in DOMAIN task_queue :
        task_queue[i].task \in ScanCallbacks => polling

(***************************************************************************)
(* The reverse-index specification: the index construction of              *)
(* _load_packages_task applied to bounded package lists.                   *)
(***************************************************************************)
\* package names of the input lists
IdxNames == {nA, nB, nPip}

\* requirement strings of the input lists: "b>=1", "a", "b (>1)", "\tA",
\* " b", ">=1"
IdxReqs ==
    { << "b", ">", "=", "1" >>,
      << "a" >>,
      << "b", " ", "(", ">", "1", ")" >>,
      << "\t", "A" >>,
      << " ", "b" >>,
      << ">", "=", "1" >> }

\* number of requirement strings in a package list
RECURSIVE TotalReqs(_)
TotalReqs(packages) ==
    IF packages = << >> THEN 0
    ELSE Len(Head(packages).requires) + TotalReqs(Tail(packages))

IdxInit == AppInit /\ FnIdle

\* the input grows by one package with no requirement yet
IdxAddPackage ==
    /\ idx_pc = "input"
    /\ Len(idx_packages) < MaxPkgs
    /\ \E n \in IdxNames :
         idx_packages' = Append(idx_packages, [name |-> n, requires |-> << >>])
    /\ UNCHANGED << idx_index, idx_pc, idx_orphans >>

\* the last package of the input declares one more requirement string
IdxAddRequirement ==
    /\ idx_pc = "input"
    /\ idx_packages # << >>
    /\ TotalReqs(idx_packages) < MaxReqs
    /\ \E r \in IdxReqs :
         idx_packages' = [idx_packages EXCEPT ![Len(idx_packages)].requires = Append(@, r)]
    /\ UNCHANGED << idx_index, idx_pc, idx_orphans >>

IdxBuild ==
    /\ idx_pc = "input"
    /\ idx_index' = BuildReverseDeps(idx_packages)
    /\ idx_pc' = "built"
    /\ UNCHANGED << idx_packages, idx_orphans >>

\* find_orphaned_packages applied to the list (in the name order the load
\* callback gives all_packages) and to the index built from it
IdxFindOrphans ==
    /\ idx_pc = "built"
    /\ idx_packages # << >>
    /\ idx_orphans' =
           SortByName(SelectOrphans(SortByName(idx_packages),
                                    OrphanNames(SortByName(idx_packages), idx_index)))
    /\ idx_pc' = "classified"
    /\ UNCHANGED << idx_packages, idx_index >>

IdxNext ==
    \/ IdxAddPackage /\ UNCHANGED idx_frame
    \/ IdxAddRequirement /\ UNCHANGED idx_frame
    \/ IdxBuild /\ UNCHANGED idx_frame
    \/ IdxFindOrphans /\ UNCHANGED idx_frame

SpecIndex == IdxInit /\ [][IdxNext]_vars

(***************************************************************************)
(* Claims about the reverse-dependency index (specification SpecIndex).    *)
(***************************************************************************)
\* package A (at position i) declares a requirement whose bare name is n
Declares(packages, i, n) ==
    \E k \in DOMAIN packages[i].requires : BareName(packages[i].requires[k]) = n

\* C10: for every pair of installed packages A and B with A # B, if A
\* declares a requirement string whose bare name is B, then the entry for B
\* of the index built from the list contains A.
C10_DependerRecorded ==
    idx_pc = "built" =>
        \A i, j \in DOMAIN idx_packages :
            LET A == idx_packages[i].name
                B == idx_packages[j].name
            IN (A # B /\ Declares(idx_packages, i, B)) =>
                   /\ B \in DOMAIN idx_index
                   /\ A \in Range(idx_index[B])

\* an index was built from a list in which a requires "b>=1" and b is installed
C10_Witness ==
    /\ idx_pc = "built"
    /\ \E i, j \in DOMAIN idx_packages :
         /\ idx_packages[i].name = nA
         /\ idx_packages[j].name = nB
         /\ << "b", ">", "=", "1" >> \in Range(idx_packages[i].requires)
    /\ nB \in DOMAIN idx_index
    /\ nA \in Range(idx_index[nB])

\* s is made of delimiter and whitespace characters only
OnlyDelimiters(s) == \A i \in DOMAIN s : s[i] \in Delims \cup Whitespace

\* the position of the first delimiter of s, Len(s) + 1 when it has none
FirstDelim(s) ==
    IF \E i \in DOMAIN s : s[i] \in Delims
    THEN CHOOSE i \in DOMAIN s :
             s[i] \in Delims /\ \A j \in 1..(i - 1) : s[j] \notin Delims
    ELSE Len(s) + 1

\* s names nothing: all that stands before its first delimiter is whitespace
NamesNothing(s) == \A j \in 1..(FirstDelim(s) - 1) : s[j] \in Whitespace

\* what the built index holds for requirement string s of package A
RecordedOrSkipped(nothing, A, s) ==
    IF nothing
    THEN BareName(s) = << >> /\ << >> \notin DOMAIN idx_index
    ELSE /\ BareName(s) # << >>
         /\ BareName(s) # A => /\ BareName(s) \in DOMAIN idx_index
                                /\ A \in Range(idx_index[BareName(s)])

\* C11 as stated: every declared requirement string yields a non-empty bare
\* name and is recorded, unless it consists of delimiters (and whitespace)
\* only, in which case it yields the empty name and the index has no entry
\* for it.
C11_EmptyOnlyForDelimiterStrings ==
    idx_pc = "built" =>
        \A i \in DOMAIN idx_packages :
            \A k \in DOMAIN idx_packages[i].requires :
                LET s == idx_packages[i].requires[k]
                IN RecordedOrSkipped(OnlyDelimiters(s), idx_packages[i].name, s)

\* C11 amended: every declared requirement string yields a non-empty bare
\* name and is recorded, unless nothing but whitespace stands before its
\* first delimiter (as in ">=1" and " b"), in which case it yields the empty
\* name and the index has no entry for it.
C11_EmptyOnlyWithoutLeadingName ==
    idx_pc = "built" =>
        \A i \in DOMAIN idx_packages :
            \A k \in DOMAIN idx_packages[i].requires :
                LET s == idx_packages[i].requires[k]
                IN RecordedOrSkipped(NamesNothing(s), idx_packages[i].name, s)

\* an index was built from a list with the requirement ">=1", which names
\* nothing, and the requirement "b (>1)" of a, which is recorded under b
C11_Witness ==
    /\ idx_pc = "built"
    /\ \E i \in DOMAIN idx_packages :
         << ">", "=", "1" >> \in Range(idx_packages[i].requires)
    /\ \E i \in DOMAIN idx_packages :
         /\ idx_packages[i].name = nA
         /\ << "b", " ", "(", ">", "1", ")" >> \in Range(idx_packages[i].requires)
    /\ << >> \notin DOMAIN idx_index
    /\ nB \in DOMAIN idx_index

(***************************************************************************)
(* Claims about the orphan classifier (specification SpecIndex).           *)
(***************************************************************************)
\* the names of a package list
Names(packages) == {packages[i].name : i \in DOMAIN packages}

\* the names with at least one dependent in the index
HasDependent(rdeps) == {n \in DOMAIN rdeps : rdeps[n] # << >>}

\* C12: the orphan list holds exactly the installed names that have no
\* dependent in the reverse index and are not essential; in particular a
\* package whose only dependents are orphans themselves is not an orphan.
C12_OrphansAreSetDifference ==
    idx_pc = "classified" =>
        /\ Names(idx_orphans) =
               (Names(idx_packages) \ HasDependent(idx_index)) \ EssentialPackages
        /\ \A i \in DOMAIN idx_orphans : idx_orphans[i] \in Range(idx_packages)
        /\ \A n \in Names(idx_packages) :
               (/\ n \in HasDependent(idx_index)
                /\ Range(idx_index[n]) \subseteq Names(idx_orphans))
               => n \notin Names(idx_orphans)

\* a requires b, nothing requires a: a is an orphan and b, whose only
\* dependent is the orphan a, is not
C12_Witness ==
    /\ idx_pc = "classified"
    /\ {nA, nB} \subseteq Names(idx_packages)
    /\ nA \in Names(idx_orphans)
    /\ nB \in DOMAIN idx_index
    /\ Range(idx_index[nB]) = {nA}
    /\ nB \notin Names(idx_orphans)

\* C13: no essential package (pip, setuptools, wheel) is in the orphan
\* list, also when it has no dependent.
C13_EssentialNeverOrphan ==
    idx_pc = "classified" => Names(idx_orphans) \cap EssentialPackages = {}

\* pip is installed, nothing requires it, another package is an orphan, and
\* pip is not in the computed orphan list
C13_Witness ==
    /\ idx_pc = "classified"
    /\ nPip \in Names(idx_packages)
    /\ nPip \notin DOMAIN idx_index
    /\ idx_orphans # << >>
    /\ nPip \notin Names(idx_orphans)

(***************************************************************************)
(* The damage-classifier specification: _scan_for_damaged_packages_task    *)
(* run twice on bounded collaborator answers.                              *)
(***************************************************************************)
DmgNames == {nA, nB}

\* paths of the files a RECORD lists
DmgFiles == {<< "f" >>, << "g" >>}

\* the .dist-info directories whose metadata cannot be parsed
DmgPaths == {<< "envA", "x-1.dist-info" >>, << "envA", "y-1.dist-info" >>}

\* what hashing a listed file does: no hash recorded, digest equal, digest
\* different, open/read raises
HashOutcomes == {"none", "match", "mismatch", "raise"}

\* the lines `pip check` can print about a package
DmgRequirements == {"b>=2", "c>=1"}

AllOptions ==
    [check_deps : BOOLEAN, check_hashes : BOOLEAN, check_import : BOOLEAN,
     check_metadata_files : BOOLEAN]

\* a package of all_packages for which every check passes
Healthy(name) ==
    [name |-> name, lookup_fails |-> FALSE, module |-> "none",
     files_raise |-> FALSE, missing |-> {}, files |-> << >>]

\* the number of answers a package gives beyond "all is well"
PkgAnswers(pkg) ==
    Len(pkg.files) + (IF pkg.lookup_fails THEN 1 ELSE 0)
    + (IF pkg.module # "none" THEN 1 ELSE 0) + (IF pkg.files_raise THEN 1 ELSE 0)
    + Cardinality(pkg.missing)

RECURSIVE SumAnswers(_)
SumAnswers(packages) ==
    IF packages = << >> THEN 0
    ELSE PkgAnswers(Head(packages)) + SumAnswers(Tail(packages))

Answers(world) ==
    Len(world.unparseable) + Len(world.report) + SumAnswers(world.packages)

DmgInit == AppInit /\ FnIdle

\* the input grows by one package, healthy so far
DmgAddPackage ==
    /\ dmg_pc = "input"
    /\ Len(dmg_world.packages) < MaxDmgPkgs
    /\ \E n \in DmgNames \ Names(dmg_world.packages) :
         dmg_world' = [dmg_world EXCEPT !.packages = Append(@, Healthy(n))]
    /\ UNCHANGED << dmg_options, dmg_first, dmg_second, dmg_pc >>

\* the last package of the input gets one more listed file
DmgAddFile ==
    /\ dmg_pc = "input"
    /\ dmg_world.packages # << >>
    /\ Answers(dmg_world) < MaxAnswers
    /\ \E path \in DmgFiles, hash \in HashOutcomes :
         dmg_world' =
             [dmg_world EXCEPT !.packages[Len(dmg_world.packages)].files =
                 Append(@, [path |-> path, hash |-> hash])]
    /\ UNCHANGED << dmg_options, dmg_first, dmg_second, dmg_pc >>

\* the last package of the input gets one failure: the lookup of its
\* distribution, its import, the reading of its RECORD, a metadata file
DmgAddFailure ==
    /\ dmg_pc = "input"
    /\ dmg_world.packages # << >>
    /\ Answers(dmg_world) < MaxAnswers
    /\ LET n == Len(dmg_world.packages)
           pkg == dmg_world.packages[n]
       IN \E q \in { [pkg EXCEPT !.lookup_fails = TRUE],
                      [pkg EXCEPT !.module = "fail"],
                      [pkg EXCEPT !.module = "raise"],
                      [pkg EXCEPT !.files_raise = TRUE],
                      [pkg EXCEPT !.missing = {"RECORD"}] } \ {pkg} :
             /\ PkgAnswers(q) = PkgAnswers(pkg) + 1
             /\ dmg_world' = [dmg_world EXCEPT !.packages[n] = q]
    /\ UNCHANGED << dmg_options, dmg_first, dmg_second, dmg_pc >>

\* `pip check` prints one more line
DmgAddReportLine ==
    /\ dmg_pc = "input"
    /\ Answers(dmg_world) < MaxAnswers
    /\ \E n \in DmgNames, r \in DmgRequirements :
         dmg_world' = [dmg_world EXCEPT !.report =
                          Append(@, [package |-> n, requirement |-> r])]
    /\ UNCHANGED << dmg_options, dmg_first, dmg_second, dmg_pc >>

\* damaged_packages_cache holds one more unparseable record
DmgAddUnparseable ==
    /\ dmg_pc = "input"
    /\ Answers(dmg_world) < MaxAnswers
    /\ \E path \in DmgPaths \ Range(dmg_world.unparseable) :
         dmg_world' = [dmg_world EXCEPT !.unparseable = Append(@, path)]
    /\ UNCHANGED << dmg_options, dmg_first, dmg_second, dmg_pc >>

\* the first run, with the checks chosen
DmgRun ==
    /\ dmg_pc = "input"
    /\ \E options \in AllOptions :
         /\ dmg_options' = options
         /\ dmg_first' = DamageScan(dmg_world, options, << >>)
    /\ dmg_pc' = "ran"
    /\ UNCHANGED << dmg_world, dmg_second >>

\* the second run, on the same input with the same checks
DmgRerun ==
    /\ dmg_pc = "ran"
    /\ dmg_second' = DamageScan(dmg_world, dmg_options, dmg_first)
    /\ dmg_pc' = "reran"
    /\ UNCHANGED << dmg_world, dmg_options, dmg_first >>

DmgNext ==
    \/ DmgAddPackage /\ UNCHANGED dmg_frame
    \/ DmgAddFile /\ UNCHANGED dmg_frame
    \/ DmgAddFailure /\ UNCHANGED dmg_frame
    \/ DmgAddReportLine /\ UNCHANGED dmg_frame
    \/ DmgAddUnparseable /\ UNCHANGED dmg_frame
    \/ DmgRun /\ UNCHANGED dmg_frame
    \/ DmgRerun /\ UNCHANGED dmg_frame

SpecDamage == DmgInit /\ [][DmgNext]_vars

(***************************************************************************)
(* Claims about the damage classifier (specification SpecDamage).          *)
(***************************************************************************)
\* the records of a result that report the given problem of the given package
Reported(result, name, problem, details) ==
    {j \in DOMAIN result : /\ result[j].name = name
                           /\ result[j].problem = problem
                           /\ result[j].details = details}

\* the file checks of pkg are reached and hashing one of its files raises
HashCheckRaises(pkg) ==
    /\ ~pkg.lookup_fails
    /\ ~pkg.files_raise
    /\ \E k \in DOMAIN pkg.files : pkg.files[k].hash = "raise"

\* every failure of package q that the hash check can meet is in the result
FailuresReported(result, q) ==
    /\ q.lookup_fails =>
          Reported(result, q.name, "Distribution lookup failed", q.name) # {}
    /\ (~q.lookup_fails /\ q.files_raise) =>
          Reported(result, q.name, "Corrupted RECORD file", q.name) # {}
    /\ (~q.lookup_fails /\ ~q.files_raise) =>
          \A k \in DOMAIN q.files :
              /\ q.files[k].hash = "mismatch" =>
                    Reported(result, q.name, "File hash mismatch", q.files[k].path) # {}
              /\ q.files[k].hash = "raise" =>
                    Reported(result, q.name, "File check failed", q.files[k].path) # {}

\* C14: with the hash check enabled, each file of a package whose hashing
\* raises gives exactly one "File check failed" problem for that package,
\* and the failures of every other package of the same scan, before and
\* after it in the list, are still recorded.
C14_HashExceptionIsolated ==
    (dmg_pc # "input" /\ dmg_options.check_hashes) =>
        \A i \in DOMAIN dmg_world.packages :
            LET pkg == dmg_world.packages[i]
            IN HashCheckRaises(pkg) =>
                  /\ \A k \in DOMAIN pkg.files :
                        pkg.files[k].hash = "raise" =>
                            Cardinality(Reported(dmg_first, pkg.name, "File check failed",
                                                 pkg.files[k].path)) = 1
                  /\ \A j \in DOMAIN dmg_world.packages \ {i} :
                        FailuresReported(dmg_first, dmg_world.packages[j])

\* hashing a file of the first package raised, a file of the second package
\* has a wrong digest, and both are in the result
C14_Witness ==
    /\ dmg_pc = "ran"
    /\ dmg_options.check_hashes
    /\ Len(dmg_world.packages) = 2
    /\ HashCheckRaises(dmg_world.packages[1])
    /\ \E k \in DOMAIN dmg_world.packages[2].files :
          dmg_world.packages[2].files[k].hash = "mismatch"
    /\ Len(dmg_first) = 2

\* the ids of a problem list
Ids(result) == {result[j].id : j \in DOMAIN result}

C16_IdsUniqueAndNothingLost ==
    dmg_pc # "input" =>
        /\ \A i, j \in DOMAIN dmg_first :
               dmg_first[i].id = dmg_first[j].id => i = j
        /\ Range(DetectedProblems(dmg_world, dmg_options)) \subseteq Range(dmg_first)

(***************************************************************************)
(* The version specification: the Version column of _populate_tree and the *)
(* keys _sort_column sorts it by, on bounded rows.                         *)
(***************************************************************************)
\* the components versions are made of: 0, 1, 9, 10
VerNumbers == {<< "0" >>, << "1" >>, << "9" >>, << "1", "0" >>}

\* a version string that packaging.version.parse rejects
VerOpaque == << "x" >>

\* the latest version `pip list --outdated` reports for an outdated row
VerLatest == << "2", ".", "0" >>

\* the number of components of the installed versions of the rows
RECURSIVE TotalComponents(_)
TotalComponents(items) ==
    IF items = << >> THEN 0
    ELSE Len(DotFields(Head(items).version)) + TotalComponents(Tail(items))

VerInit == AppInit /\ FnIdle

\* one more row: a package with a one-component version, up to date
VerAddItem ==
    /\ ver_pc = "input"
    /\ Len(ver_items) < MaxVerItems
    /\ TotalComponents(ver_items) < MaxComponents
    /\ \E n \in VerNumbers :
         ver_items' = Append(ver_items, [version |-> n, latest |-> NoLatest])
    /\ UNCHANGED << ver_packaging, ver_keys, ver_pc >>

\* one more row: a package whose version is not a version number
VerAddOpaqueItem ==
    /\ ver_pc = "input"
    /\ Len(ver_items) < MaxVerItems
    /\ TotalComponents(ver_items) < MaxComponents
    /\ ver_items' = Append(ver_items, [version |-> VerOpaque, latest |-> NoLatest])
    /\ UNCHANGED << ver_packaging, ver_keys, ver_pc >>

\* the version of the last row, a version number, gets one more component
VerAddComponent ==
    /\ ver_pc = "input"
    /\ ver_items # << >>
    /\ ver_items[Len(ver_items)].version # VerOpaque
    /\ TotalComponents(ver_items) < MaxComponents
    /\ \E n \in VerNumbers :
         ver_items' = [ver_items EXCEPT ![Len(ver_items)].version = @ \o << "." >> \o n]
    /\ UNCHANGED << ver_packaging, ver_keys, ver_pc >>

\* the package of the last row is outdated
VerMarkOutdated ==
    /\ ver_pc = "input"
    /\ ver_items # << >>
    /\ ver_items[Len(ver_items)].latest = NoLatest
    /\ ver_items' = [ver_items EXCEPT ![Len(ver_items)].latest = VerLatest]
    /\ UNCHANGED << ver_packaging, ver_keys, ver_pc >>

\* _sort_column("Version"): the key of each row's Version cell, with or
\* without the packaging library; bare is the key of the installed version
VerSortKeys ==
    /\ ver_pc = "input"
    /\ ver_items # << >>
    /\ \E packaging_available \in BOOLEAN :
         /\ ver_packaging' = packaging_available
         /\ ver_keys' =
               [i \in DOMAIN ver_items |->
                   [shown |-> GetVersionSortKey(
                                  VersionDisplay(ver_items[i].version, ver_items[i].latest),
                                  packaging_available),
                    bare |-> GetVersionSortKey(ver_items[i].version, packaging_available)]]
    /\ ver_pc' = "keyed"
    /\ UNCHANGED ver_items

VerNext ==
    \/ VerAddItem /\ UNCHANGED ver_frame
    \/ VerAddOpaqueItem /\ UNCHANGED ver_frame
    \/ VerAddComponent /\ UNCHANGED ver_frame
    \/ VerMarkOutdated /\ UNCHANGED ver_frame
    \/ VerSortKeys /\ UNCHANGED ver_frame

SpecVersion == VerInit /\ [][VerNext]_vars

(***************************************************************************)
(* Claims about the version sort key (specification SpecVersion).          *)
(***************************************************************************)
\* the integer components of a version made of dot-separated integers
Components(version) == [k \in DOMAIN DotFields(version) |-> ToInt(DotFields(version)[k])]

\* a and b differ first at a component both have, where a is smaller
NumericallyBefore(a, b) ==
    \E k \in DOMAIN a \cap DOMAIN b :
        /\ \A j \in 1..(k - 1) : a[j] = b[j]
        /\ a[k] < b[k]

\* the keys of rows i and j put row i strictly first
SortsBefore(i, j) ==
    /\ KeyLess(ver_keys[i].shown, ver_keys[j].shown)
    /\ ~KeyLess(ver_keys[j].shown, ver_keys[i].shown)

\* C17 as stated: with and without the packaging library, two versions of
\* dot-separated integers are ordered by the numeric value of the first
\* component in which they differ.
C17_NumericOrderAlways ==
    ver_pc = "keyed" =>
        \A i, j \in DOMAIN ver_items :
            (/\ IsRelease(ver_items[i].version)
             /\ IsRelease(ver_items[j].version)
             /\ NumericallyBefore(Components(ver_items[i].version),
                                  Components(ver_items[j].version)))
            => SortsBefore(i, j)

\* C17 amended: with the packaging library the keys order two versions of
\* dot-separated integers by the numeric value of the first component in
\* which they differ; without it the key is the version string and the
\* order is that of the strings.
C17_NumericOrderWithPackaging ==
    ver_pc = "keyed" =>
        \A i, j \in DOMAIN ver_items :
            IF ver_packaging
            THEN (/\ IsRelease(ver_items[i].version)
                  /\ IsRelease(ver_items[j].version)
                  /\ NumericallyBefore(Components(ver_items[i].version),
                                       Components(ver_items[j].version)))
                 => SortsBefore(i, j)
            ELSE StrLess(ver_items[i].version, ver_items[j].version)
                 <=> SortsBefore(i, j)

\* with packaging, 1.9 sorts before 1.10
C17_Witness ==
    /\ ver_pc = "keyed"
    /\ ver_packaging
    /\ Len(ver_items) = 2
    /\ ver_items[1].version = << "1", ".", "9" >>
    /\ ver_items[2].version = << "1", ".", "1", "0" >>
    /\ SortsBefore(1, 2)

\* C18: the key of the Version cell of an outdated row, which shows the
\* installed version, the arrow and the latest version, is the key of the
\* installed version alone.
C18_OnlyInstalledVersionOrders ==
    ver_pc = "keyed" =>
        \A i \in DOMAIN ver_items :
            ver_items[i].latest # NoLatest => ver_keys[i].shown = ver_keys[i].bare

\* keys were computed for an outdated row showing "1.9 -> 2.0"
C18_Witness ==
    /\ ver_pc = "keyed"
    /\ \E i \in DOMAIN ver_items :
         /\ ver_items[i].version = << "1", ".", "9" >>
         /\ ver_items[i].latest = VerLatest
         /\ ver_keys[i].shown = ver_keys[i].bare

(***************************************************************************)
(* The matching specification: _is_package_outdated on bounded outdated    *)
(* maps.                                                                   *)
(***************************************************************************)
\* installed names: "A-B", "a_b", "a.-b", "c"
MtNames ==
    { << "A", "-", "B" >>, << "a", "_", "b" >>, << "a", ".", "-", "b" >>, << "c" >> }

\* names `pip list --outdated` can report: "a_b", "A-B", "a--b", "b"
MtKeys ==
    { << "a", "_", "b" >>, << "A", "-", "B" >>, << "a", "-", "-", "b" >>, << "b" >> }

MtInit == AppInit /\ FnIdle

\* the installed package whose row is being filled
MtChooseName ==
    /\ mt_pc = "input"
    /\ mt_name = << >>
    /\ \E n \in MtNames : mt_name' = n
    /\ UNCHANGED << mt_outdated, mt_result, mt_pc >>

\* outdated_packages gets one more entry
MtAddOutdated ==
    /\ mt_pc = "input"
    /\ Len(mt_outdated) < MaxOutdated
    /\ \E k \in MtKeys \ Names(mt_outdated) :
         mt_outdated' = Append(mt_outdated, [name |-> k])
    /\ UNCHANGED << mt_name, mt_result, mt_pc >>

\* self._is_package_outdated(pkg["name"])
MtLookup ==
    /\ mt_pc = "input"
    /\ mt_name # << >>
    /\ mt_result' = IsPackageOutdated(mt_name, mt_outdated)
    /\ mt_pc' = "done"
    /\ UNCHANGED << mt_name, mt_outdated >>

MtNext ==
    \/ MtChooseName /\ UNCHANGED mt_frame
    \/ MtAddOutdated /\ UNCHANGED mt_frame
    \/ MtLookup /\ UNCHANGED mt_frame

SpecMatch == MtInit /\ [][MtNext]_vars

(***************************************************************************)
(* Claims about the outdated matching (specification SpecMatch).           *)
(***************************************************************************)
\* the entries of the outdated map with the same normalized name as n
NormalMatches(n) ==
    {k \in Names(mt_outdated) : Normalize(k) = Normalize(n)}

\* C19: the lookup returns the entry stored under the exact name when there
\* is one; otherwise an entry whose normalized name (lower case, each run
\* of '-' and '.' as one '_') equals that of the installed name; otherwise
\* nothing.  In particular "A-B" finds the entry stored under "a_b".
C19_ExactThenNormalized ==
    mt_pc = "done" =>
        /\ mt_name \in Names(mt_outdated) =>
               mt_result = [found |-> TRUE, name |-> mt_name]
        /\ (mt_name \notin Names(mt_outdated) /\ NormalMatches(mt_name) # {}) =>
               mt_result.found /\ mt_result.name \in NormalMatches(mt_name)
        /\ NormalMatches(mt_name) = {} => mt_result = None
        /\ (mt_name = << "A", "-", "B" >> /\ << "a", "_", "b" >> \in Names(mt_outdated)) =>
               mt_result.found
        /\ (mt_name = << "c" >>) => ~mt_result.found

\* "A-B" was looked up in a map that holds "a_b" and not "A-B", and the
\* entry of "a_b" was returned
C19_Witness ==
    /\ mt_pc = "done"
    /\ mt_name = << "A", "-", "B" >>
    /\ Names(mt_outdated) = {<< "a", "_", "b" >>, << "b" >>}
    /\ mt_result = [found |-> TRUE, name |-> << "a", "_", "b" >>]


(***************************************************************************)
(* The process specification: the commands handed to _run_pip_command,     *)
(* the external processes their worker threads spawn, and the handlers of  *)
(* the GUI thread that call _terminate_active_process.  process_lock is    *)
(* held only around one read or one write of self.active_process, so each  *)
(* critical section is one step.                                           *)
(***************************************************************************)

\* proc_to_kill.poll() is None: terminate() and wait(timeout=1)
Terminate(procs, p) ==
    IF p # 0 /\ procs[p] = "running"
    THEN [procs EXCEPT ![p] = "terminated"]
    ELSE procs

\* the processes running now
Running == {c \in Commands : processes[c] = "running"}

PipInit == AppInit /\ FnIdle

\* _pip_action, up to the end of the critical section of
\* _terminate_active_process
PipActionEnter(c) ==
    /\ gui_pc = "ready"
    /\ pip_pc[c] = "idle"
    /\ gui_pc' = "pip_action"
    /\ gui_cmd' = c
    /\ proc_to_kill' = active_process
    /\ UNCHANGED << active_process, processes, pip_pc, completions, at_closing, pip_actions >>

\* _pip_action, from the termination of the process read to the start of the
\* worker thread; the user may answer no to the question
PipActionRun ==
    /\ gui_pc = "pip_action"
    /\ processes' = Terminate(processes, proc_to_kill)
    /\ \E confirmed \in BOOLEAN :
         IF confirmed
         THEN /\ pip_pc' = [pip_pc EXCEPT ![gui_cmd] = "started"]
              /\ pip_actions' = pip_actions \cup {gui_cmd}
         ELSE UNCHANGED << pip_pc, pip_actions >>
    /\ gui_pc' = "ready"
    /\ gui_cmd' = 0
    /\ proc_to_kill' = 0
    /\ UNCHANGED << active_process, completions, at_closing >>

\* _run_pip_command called by a handler that terminates nothing first
RunPipCommand(c) ==
    /\ gui_pc = "ready"
    /\ pip_pc[c] = "idle"
    /\ pip_pc' = [pip_pc EXCEPT ![c] = "started"]
    /\ UNCHANGED << active_process, processes, gui_pc, gui_cmd, proc_to_kill,
                    completions, at_closing, pip_actions >>

\* task: subprocess.Popen(command, ...); when it raises, proc stays None and
\* the worker goes through except and finally
TaskPopen(c) ==
    /\ gui_pc # "destroyed"
    /\ pip_pc[c] = "started"
    /\ \E spawned \in BOOLEAN :
         IF spawned
         THEN /\ processes' = [processes EXCEPT ![c] = "running"]
              /\ pip_pc' = [pip_pc EXCEPT ![c] = "spawned"]
              /\ UNCHANGED completions
         ELSE /\ pip_pc' = [pip_pc EXCEPT ![c] = "finished"]
              /\ completions' = completions + 1
              /\ UNCHANGED processes
    /\ UNCHANGED << active_process, gui_pc, gui_cmd, proc_to_kill, at_closing, pip_actions >>

\* task: with self.process_lock: self.active_process = proc
TaskRegister(c) ==
    /\ gui_pc # "destroyed"
    /\ pip_pc[c] = "spawned"
    /\ active_process' = c
    /\ pip_pc' = [pip_pc EXCEPT ![c] = "registered"]
    /\ UNCHANGED << processes, gui_pc, gui_cmd, proc_to_kill, completions,
                    at_closing, pip_actions >>

\* the external process ends by itself
ProcessExits(c) ==
    /\ processes[c] = "running"
    /\ processes' = [processes EXCEPT ![c] = "exited"]
    /\ UNCHANGED << active_process, pip_pc, gui_pc, gui_cmd, proc_to_kill,
                    completions, at_closing, pip_actions >>

\* task: the output ends, proc.wait() returns, and finally clears the slot
\* when it still holds this worker's process and queues on_complete
TaskFinally(c) ==
    /\ gui_pc # "destroyed"
    /\ pip_pc[c] = "registered"
    /\ processes[c] \in {"exited", "terminated"}
    /\ active_process' = IF active_process = c THEN 0 ELSE active_process
    /\ pip_pc' = [pip_pc EXCEPT ![c] = "finished"]
    /\ completions' = completions + 1
    /\ UNCHANGED << processes, gui_pc, gui_cmd, proc_to_kill, at_closing, pip_actions >>

\* on_complete of _pip_action: the refresh it starts begins with
\* _terminate_active_process, here up to the end of its critical section
OnCompleteEnter ==
    /\ gui_pc = "ready"
    /\ completions > 0
    /\ completions' = completions - 1
    /\ gui_pc' = "refresh"
    /\ proc_to_kill' = active_process
    /\ UNCHANGED << active_process, processes, pip_pc, gui_cmd, at_closing, pip_actions >>

\* the rest of that _terminate_active_process
OnCompleteRun ==
    /\ gui_pc = "refresh"
    /\ processes' = Terminate(processes, proc_to_kill)
    /\ gui_pc' = "ready"
    /\ proc_to_kill' = 0
    /\ UNCHANGED << active_process, pip_pc, gui_cmd, completions, at_closing, pip_actions >>

\* on_closing, up to the end of the critical section of
\* _terminate_active_process
OnClosingEnter ==
    /\ gui_pc = "ready"
    /\ gui_pc' = "closing"
    /\ proc_to_kill' = active_process
    /\ at_closing' = Running
    /\ UNCHANGED << active_process, processes, pip_pc, gui_cmd, completions,
                    pip_actions >>

\* on_closing, from the termination of the process read to root.destroy()
OnClosingExit ==
    /\ gui_pc = "closing"
    /\ processes' = Terminate(processes, proc_to_kill)
    /\ gui_pc' = "destroyed"
    /\ proc_to_kill' = 0
    /\ UNCHANGED << active_process, pip_pc, gui_cmd, completions, at_closing, pip_actions >>

PipNext ==
    \/ (\E c \in Commands : PipActionEnter(c)) /\ UNCHANGED pip_frame
    \/ PipActionRun /\ UNCHANGED pip_frame
    \/ (\E c \in Commands : RunPipCommand(c)) /\ UNCHANGED pip_frame
    \/ (\E c \in Commands : TaskPopen(c)) /\ UNCHANGED pip_frame
    \/ (\E c \in Commands : TaskRegister(c)) /\ UNCHANGED pip_frame
    \/ (\E c \in Commands : ProcessExits(c)) /\ UNCHANGED pip_frame
    \/ (\E c \in Commands : TaskFinally(c)) /\ UNCHANGED pip_frame
    \/ OnCompleteEnter /\ UNCHANGED pip_frame
    \/ OnCompleteRun /\ UNCHANGED pip_frame
    \/ OnClosingEnter /\ UNCHANGED pip_frame
    \/ OnClosingExit /\ UNCHANGED pip_frame

SpecPip == PipInit /\ [][PipNext]_vars

(***************************************************************************)
(* Claims about the external processes.                                    *)
(***************************************************************************)

\* C20: once on_closing has destroyed the window, no external process that
\* was running when on_closing began is still running, whatever the workers
\* were doing and however many commands were running.
C20_NoProcessSurvivesShutdown ==
    gui_pc = "destroyed" => \A c \in at_closing : processes[c] # "running"


\* the processes of commands started by _pip_action that are running now
RunningActions == Running \cap pip_actions

\* C21: two processes spawned for two different _pip_action commands never
\* run at the same time: the earlier one has been terminated before the later
\* one is spawned.
C21_NoTwoActionsRunning == Cardinality(RunningActions) <= 1


(***************************************************************************)
(* The V2 application (PYLibrariesList_V2.py): pip commands, the refresh   *)
(* each of them ends with, and the queue the GUI thread polls.  Lines      *)
(* written to the log window and status texts touch no state kept here.    *)
(***************************************************************************)

\* the names a command can install or remove: "a", "b", "c"
V2Names == {nA, nB, nC}

\* a pip command handed to _run_pip_command
V2Cmd(pc, action, packages) == [pc |-> pc, action |-> action, packages |-> packages]

\* an entry of task_queue: an on_complete callback or _on_packages_loaded
V2Msg(kind, packages) == [kind |-> kind, packages |-> packages]

\* the package descriptors of a set of names, in some order of completion
RECURSIVE AsPackages(_)
AsPackages(names) ==
    IF names = {} THEN << >>
    ELSE LET n == CHOOSE x \in names : TRUE
         IN << [name |-> n] >> \o AsPackages(names \ {n})

V2Init == AppInit /\ FnIdle

\* refresh_packages(): the UI goes busy, the view is cleared and
\* _load_packages_task is submitted
RefreshPackages ==
    /\ v2_busy' = TRUE
    /\ v2_delete_btn' = FALSE
    /\ v2_tree' = {}
    /\ v2_selection' = {}
    /\ v2_loads' = Append(v2_loads, V2Load("submitted", {}))

\* the Refresh button, enabled when the UI is not busy
V2RefreshButton ==
    /\ ~v2_draining
    /\ v2_tab = "manage"
    /\ ~v2_busy
    /\ v2_refreshes < MaxV2Refreshes
    /\ RefreshPackages
    /\ v2_refreshes' = v2_refreshes + 1
    /\ UNCHANGED << v2_installed, v2_all_packages, v2_queue, v2_draining, v2_cmds, v2_tab >>

\* the user opens the other tab; _update_ui_state disables the tabs while
\* the UI is busy
V2SelectTab ==
    /\ ~v2_draining
    /\ ~v2_busy
    /\ v2_tab' = IF v2_tab = "manage" THEN "install" ELSE "manage"
    /\ UNCHANGED << v2_installed, v2_all_packages, v2_tree, v2_selection,
                    v2_delete_btn, v2_busy, v2_queue, v2_draining, v2_cmds,
                    v2_loads, v2_refreshes >>

\* the user changes the selection of the tree: <<TreeviewSelect>> runs
\* _update_status_bar, which enables delete_btn when rows are selected
V2Select ==
    /\ ~v2_draining
    /\ v2_tab = "manage"
    /\ \E rows \in SUBSET v2_tree :
         /\ rows # v2_selection
         /\ v2_selection' = rows
         /\ v2_delete_btn' = (rows # {})
    /\ UNCHANGED << v2_installed, v2_all_packages, v2_tree, v2_busy, v2_queue,
                    v2_draining, v2_cmds, v2_loads, v2_refreshes, v2_tab >>

\* delete_selected, confirmed: pip uninstall -y of the selected rows
V2DeleteSelected ==
    /\ ~v2_draining
    /\ v2_tab = "manage"
    /\ v2_delete_btn
    /\ v2_selection # {}
    /\ Len(v2_cmds) < MaxV2Commands
    /\ v2_busy' = TRUE
    /\ v2_delete_btn' = FALSE
    /\ v2_cmds' = Append(v2_cmds, V2Cmd("running", "uninstall", v2_selection))
    /\ UNCHANGED << v2_installed, v2_all_packages, v2_tree, v2_selection,
                    v2_queue, v2_draining, v2_loads, v2_refreshes, v2_tab >>

\* install_package with a name in the entry; install_btn is enabled when the
\* UI is not busy
V2InstallPackage ==
    /\ ~v2_draining
    /\ v2_tab = "install"
    /\ ~v2_busy
    /\ Len(v2_cmds) < MaxV2Commands
    /\ v2_busy' = TRUE
    /\ v2_delete_btn' = FALSE
    /\ \E n \in V2Names :
         v2_cmds' = Append(v2_cmds, V2Cmd("running", "install", {n}))
    /\ UNCHANGED << v2_installed, v2_all_packages, v2_tree, v2_selection,
                    v2_queue, v2_draining, v2_loads, v2_refreshes, v2_tab >>

\* _run_pip_command.task: the pip process changes the environment, or fails,
\* and ends; finally queues on_complete
V2PipTask(i) ==
    /\ v2_cmds[i].pc = "running"
    /\ \E succeeded \in BOOLEAN :
         v2_installed' =
             IF ~succeeded THEN v2_installed
             ELSE IF v2_cmds[i].action = "install"
                  THEN v2_installed \cup v2_cmds[i].packages
                  ELSE v2_installed \ v2_cmds[i].packages
    /\ v2_cmds' = [v2_cmds EXCEPT ![i].pc = "finished"]
    /\ v2_queue' = Append(v2_queue, V2Msg("on_complete", {}))
    /\ UNCHANGED << v2_all_packages, v2_tree, v2_selection, v2_delete_btn,
                    v2_busy, v2_draining, v2_loads, v2_refreshes, v2_tab >>

\* _load_packages_task: dists = list(importlib.metadata.distributions())
V2LoadScan(l) ==
    /\ v2_loads[l].pc = "submitted"
    /\ v2_loads' = [v2_loads EXCEPT ![l] = V2Load("scanned", v2_installed)]
    /\ UNCHANGED << v2_installed, v2_all_packages, v2_tree, v2_selection,
                    v2_delete_btn, v2_busy, v2_queue, v2_draining, v2_cmds,
                    v2_refreshes, v2_tab >>

\* _load_packages_task: the descriptors are gathered and _on_packages_loaded
\* is queued
V2LoadDone(l) ==
    /\ v2_loads[l].pc = "scanned"
    /\ v2_loads' = [v2_loads EXCEPT ![l].pc = "done"]
    /\ v2_queue' = Append(v2_queue, V2Msg("loaded", v2_loads[l].snapshot))
    /\ UNCHANGED << v2_installed, v2_all_packages, v2_tree, v2_selection,
                    v2_delete_btn, v2_busy, v2_draining, v2_cmds, v2_refreshes, v2_tab >>

\* the timer runs _process_queue and the queue holds something
V2PollBegin ==
    /\ ~v2_draining
    /\ v2_queue # << >>
    /\ v2_draining' = TRUE
    /\ UNCHANGED << v2_installed, v2_all_packages, v2_tree, v2_selection,
                    v2_delete_btn, v2_busy, v2_queue, v2_cmds, v2_loads,
                    v2_refreshes, v2_tab >>

\* _process_queue: one task of the loop, either an on_complete callback
\* (refresh_packages) or _on_packages_loaded
V2PollTask ==
    /\ v2_draining
    /\ v2_queue # << >>
    /\ v2_queue' = Tail(v2_queue)
    /\ IF Head(v2_queue).kind = "on_complete"
       THEN /\ RefreshPackages
            /\ UNCHANGED << v2_all_packages, v2_tab >>
       ELSE /\ v2_all_packages' = SortByName(AsPackages(Head(v2_queue).packages))
            /\ v2_tree' = Head(v2_queue).packages
            /\ v2_selection' = {}
            /\ v2_busy' = FALSE
            /\ v2_delete_btn' = FALSE
            /\ v2_tab' = "manage"
            /\ UNCHANGED v2_loads
    /\ UNCHANGED << v2_installed, v2_draining, v2_cmds, v2_refreshes >>

\* _process_queue: queue.Empty ends the loop and the timer is set again
V2PollEnd ==
    /\ v2_draining
    /\ v2_queue = << >>
    /\ v2_draining' = FALSE
    /\ UNCHANGED << v2_installed, v2_all_packages, v2_tree, v2_selection,
                    v2_delete_btn, v2_busy, v2_queue, v2_cmds, v2_loads,
                    v2_refreshes, v2_tab >>

V2Next ==
    \/ V2RefreshButton /\ UNCHANGED v2_frame
    \/ V2SelectTab /\ UNCHANGED v2_frame
    \/ V2Select /\ UNCHANGED v2_frame
    \/ V2DeleteSelected /\ UNCHANGED v2_frame
    \/ V2InstallPackage /\ UNCHANGED v2_frame
    \/ (\E i \in DOMAIN v2_cmds : V2PipTask(i)) /\ UNCHANGED v2_frame
    \/ (\E l \in DOMAIN v2_loads : V2LoadScan(l)) /\ UNCHANGED v2_frame
    \/ (\E l \in DOMAIN v2_loads : V2LoadDone(l)) /\ UNCHANGED v2_frame
    \/ V2PollBegin /\ UNCHANGED v2_frame
    \/ V2PollTask /\ UNCHANGED v2_frame
    \/ V2PollEnd /\ UNCHANGED v2_frame

SpecV2 == V2Init /\ [][V2Next]_vars

(***************************************************************************)
(* Claims about the V2 application.                                        *)
(***************************************************************************)

\* every command has finished, every load has delivered its result and the
\* queue has been drained
V2Quiescent ==
    /\ ~v2_draining
    /\ v2_queue = << >>
    /\ \A i \in DOMAIN v2_cmds : v2_cmds[i].pc = "finished"
    /\ \A l \in DOMAIN v2_loads : v2_loads[l].pc = "done"

\* C22: once every started pip command has finished and the queue is
\* drained, all_packages names exactly the packages installed then.
C22_ListReflectsLastCommand ==
    (V2Quiescent /\ v2_cmds # << >>) => Names(v2_all_packages) = v2_installed


(***************************************************************************)
(* The status specification: the progress messages of the background      *)
(* scans, queued by _queue_status_update and _queue_status_update_for_tool *)
(* and run by _process_queue.                                              *)
(***************************************************************************)

\* a running scan: its number, its kind, the value of current_scan_id it was
\* launched with and the progress messages it has still to emit
StScan(no, kind, scan_id, left) ==
    [no |-> no, kind |-> kind, scan_id |-> scan_id, left |-> left]

\* an update_task in the queue; the tool task carries no scan_id in the code,
\* the field records the generation its scan was launched in
StTask(kind, scan_id, text) == [kind |-> kind, scan_id |-> scan_id, text |-> text]

StInit == AppInit /\ FnIdle

\* _start_full_refresh_chain / check_for_updates_only: the generation
\* advances and the scan is launched with the new value
StStartScan(kind) ==
    /\ st_launched < MaxStScans
    /\ st_scan_id' = st_scan_id + 1
    /\ st_launched' = st_launched + 1
    /\ st_scans' = st_scans \cup
           {StScan(st_launched + 1, kind, st_scan_id + 1, MaxStProgress)}
    /\ UNCHANGED << st_queue, st_status, st_label, st_last >>

\* find_damaged_packages: the label shows "Scanning..." and the scan is
\* launched; current_scan_id is neither advanced nor handed to the task
StFindDamaged ==
    /\ st_launched < MaxStScans
    /\ st_launched' = st_launched + 1
    /\ st_label' = StText(st_launched + 1, 0)
    /\ st_scans' = st_scans \cup
           {StScan(st_launched + 1, "damaged", st_scan_id, MaxStProgress)}
    /\ UNCHANGED << st_scan_id, st_queue, st_status, st_last >>

\* a scan reports progress: _queue_status_update(message, scan_id) in the
\* load and outdated scans, _queue_status_update_for_tool(label, message) in
\* the damaged scan
StProgress(scan) ==
    /\ scan \in st_scans
    /\ scan.left > 0
    /\ st_scans' = (st_scans \ {scan}) \cup
           {StScan(scan.no, scan.kind, scan.scan_id, scan.left - 1)}
    /\ st_queue' = Append(st_queue,
           StTask(IF scan.kind = "damaged" THEN "tool" ELSE "status",
                  scan.scan_id, StText(scan.no, scan.left)))
    /\ UNCHANGED << st_scan_id, st_launched, st_status, st_label, st_last >>

\* the scan's task returns
StScanEnds(scan) ==
    /\ scan \in st_scans
    /\ scan.left = 0
    /\ st_scans' = st_scans \ {scan}
    /\ UNCHANGED << st_scan_id, st_launched, st_queue, st_status, st_label,
                    st_last >>

\* _process_queue runs the update_task at the head of the queue
StProcess ==
    /\ st_queue # << >>
    /\ st_queue' = Tail(st_queue)
    /\ LET task == Head(st_queue)
       IN /\ st_status' = IF task.kind = "status" /\ task.scan_id = st_scan_id
                          THEN task.text ELSE st_status
          /\ st_label' = IF task.kind = "tool" THEN task.text ELSE st_label
          /\ st_last' = [stale |-> task.scan_id # st_scan_id,
                         changed |-> \/ st_status' # st_status
                                     \/ st_label' # st_label]
    /\ UNCHANGED << st_scan_id, st_launched, st_scans >>

StNext ==
    \/ (\E kind \in {"load", "outdated"} : StStartScan(kind)) /\ UNCHANGED st_frame
    \/ StFindDamaged /\ UNCHANGED st_frame
    \/ (\E scan \in st_scans : StProgress(scan)) /\ UNCHANGED st_frame
    \/ (\E scan \in st_scans : StScanEnds(scan)) /\ UNCHANGED st_frame
    \/ StProcess /\ UNCHANGED st_frame

SpecStatus == StInit /\ [][StNext]_vars

(***************************************************************************)
(* Claims about progress messages.                                         *)
(***************************************************************************)

\* C23: a progress message run after the generation has moved past the one
\* its scan was launched in changes neither the status bar nor a label.
C23_StaleProgressDropped == st_last.stale => ~st_last.changed


(***************************************************************************)
(* Claims about failed and superseded scans (specification Spec).          *)
(***************************************************************************)

\* the head of the queue is the error box of a failed load or outdated scan:
\* the worker queued it together with, and directly before, its completion
ErrorOfScan ==
    /\ Head(task_queue).task = "showerror"
    /\ Len(task_queue) > 1
    /\ task_queue[2].task \in StampedCallbacks
    /\ task_queue[2].failed

\* C24: the error box of a failed package-load or outdated scan is not shown
\* once the scan's generation has been superseded.
C24_StaleFailureShowsNoError ==
    [][(HeadRuns /\ ErrorOfScan) => ~IsStale(task_queue[2].scan_id)]_vars


\* C25: the completion callback of an outdated check that failed leaves
\* outdated_packages as it was.
C25_FailedCheckKeepsOutdated ==
    [][(/\ HeadRuns
        /\ Head(task_queue).task = "on_outdated_checked"
        /\ Head(task_queue).failed)
       => UNCHANGED outdated_packages]_vars


(***************************************************************************)
(* Claims about self-references in the reverse index (SpecIndex).          *)
(***************************************************************************)

\* C30: no entry of the index lists a package under its own name, names
\* compared without regard to case, and no entry has the empty name.
C30_NoSelfDependency ==
    idx_pc # "input" =>
        /\ \A n \in DOMAIN idx_index :
               \A i \in DOMAIN idx_index[n] : Lower(idx_index[n][i]) # Lower(n)
        /\ << >> \notin DOMAIN idx_index


(***************************************************************************)
(* Further claims about the damage classifier (SpecDamage).                *)
(***************************************************************************)

\* the records of a result that report the given kind of problem
OfKind(result, problem) == {j \in DOMAIN result : result[j].problem = problem}

\* C26: with the dependency check enabled, the result holds as many
\* "Dependency conflict" problems as the report of `pip check` has distinct
\* package/requirement lines.
C26_OneProblemPerReportLine ==
    (dmg_pc # "input" /\ dmg_options.check_deps) =>
        Cardinality(OfKind(dmg_first, "Dependency conflict"))
            = Cardinality(Range(dmg_world.report))

\* C27: with the missing-metadata-file check enabled, every metadata file a
\* package of the snapshot lacks is reported once for that package, whatever
\* the package's file list is.
C27_EveryMissingFileReported ==
    (dmg_pc # "input" /\ dmg_options.check_metadata_files) =>
        \A i \in DOMAIN dmg_world.packages :
            LET pkg == dmg_world.packages[i]
            IN \A m \in pkg.missing :
                   Cardinality(Reported(dmg_first, pkg.name, "Missing metadata file",
                                        << m >>)) = 1


\* C28: every unparseable record of the scan is reported by the classifier
\* as one "Unparseable metadata" problem whose id is the record's path,
\* whatever checks are enabled and however many packages were parsed.
C28_UnparseableAlwaysReported ==
    dmg_pc # "input" =>
        \A i \in DOMAIN dmg_world.unparseable :
            Cardinality({j \in OfKind(dmg_first, "Unparseable metadata") :
                            dmg_first[j].id = dmg_world.unparseable[i]}) = 1

\* two unparseable records, no package parsed, every check switched off:
\* both records are reported
C28_Witness ==
    /\ dmg_pc = "ran"
    /\ Len(dmg_world.unparseable) = 2
    /\ dmg_world.packages = << >>
    /\ dmg_options = [check_deps |-> FALSE, check_hashes |-> FALSE,
                      check_import |-> FALSE, check_metadata_files |-> FALSE]
    /\ Cardinality(OfKind(dmg_first, "Unparseable metadata")) = 2

\* the file list of pkg is reached by the file checks
FilesReached(pkg) == ~pkg.lookup_fails /\ ~pkg.files_raise

\* the paths of the listed files of pkg whose recomputed hash differs from
\* the recorded one
Mismatched(pkg) ==
    {pkg.files[k].path : k \in {k \in DOMAIN pkg.files : pkg.files[k].hash = "mismatch"}}

\* C29: the hash check is off by default; switched off, no "File hash
\* mismatch" problem is produced and no hashing fails; switched on, such a problem is produced
\* for exactly the listed files with a recorded hash that differs from the
\* recomputed one, and for no file without a recorded hash.
C29_HashCheckOptInAndExact ==
    /\ ~DefaultOptions.check_hashes
    /\ dmg_pc # "input" =>
         IF ~dmg_options.check_hashes
         THEN /\ OfKind(dmg_first, "File hash mismatch") = {}
              /\ OfKind(dmg_first, "File check failed") = {}
         ELSE /\ \A i \in DOMAIN dmg_world.packages :
                     LET pkg == dmg_world.packages[i]
                     IN FilesReached(pkg) =>
                            \A path \in DmgFiles :
                                Cardinality(Reported(dmg_first, pkg.name,
                                                     "File hash mismatch", path))
                                    = IF path \in Mismatched(pkg) THEN 1 ELSE 0
              /\ \A j \in OfKind(dmg_first, "File hash mismatch") :
                     \E i \in DOMAIN dmg_world.packages :
                         /\ dmg_world.packages[i].name = dmg_first[j].name
                         /\ FilesReached(dmg_world.packages[i])
                         /\ dmg_first[j].details \in Mismatched(dmg_world.packages[i])

\* the hash check ran on a package with one file without a recorded hash and
\* one file whose hash differs: one problem, for the second file
C29_Witness ==
    /\ dmg_pc = "ran"
    /\ dmg_options.check_hashes
    /\ Len(dmg_world.packages) = 1
    /\ FilesReached(dmg_world.packages[1])
    /\ {dmg_world.packages[1].files[k].hash : k \in DOMAIN dmg_world.packages[1].files}
           = {"none", "mismatch"}
    /\ Cardinality(OfKind(dmg_first, "File hash mismatch")) = 1


(***************************************************************************)
(* Further claims about the reverse index and the orphans (SpecIndex).     *)
(***************************************************************************)

\* C31: every entry of the reverse index lists each dependent package at
\* most once, also when a package declares several requirement strings with
\* the same bare name.
C31_EntriesAreSets ==
    idx_pc # "input" =>
        \A n \in DOMAIN idx_index :
            \A i, j \in DOMAIN idx_index[n] :
                idx_index[n][i] = idx_index[n][j] => i = j

\* C32: an installed package that another installed package requires is not
\* an orphan, also when the requirement spells its name in another letter
\* case.
C32_RequiredIsNoOrphanAnyCase ==
    idx_pc = "classified" =>
        \A o \in DOMAIN idx_orphans :
            \A i \in DOMAIN idx_packages :
                \A k \in DOMAIN idx_packages[i].requires :
                    Lower(idx_packages[i].name) # Lower(idx_orphans[o].name)
                        => Lower(BareName(idx_packages[i].requires[k]))
                               # Lower(idx_orphans[o].name)


(***************************************************************************)
(* A further claim about the version sort key (SpecVersion).               *)
(***************************************************************************)

\* k1 and k2 can be compared by data.sort: both are Versions or both are
\* strings, and exactly one of k1 < k2, k1 = k2, k2 < k1 holds
Comparable(k1, k2) ==
    /\ k1.version = k2.version
    /\ (k1 = k2) # (KeyLess(k1, k2) # KeyLess(k2, k1))

\* C33: get_version_sort_key gives a key for every Version cell, also for
\* one that does not parse as a version (with packaging: the key of 0.0.0),
\* and the keys of any two rows of the list can be compared, so the sort by
\* version does not raise.
C33_VersionKeysComparable ==
    ver_pc = "keyed" =>
        /\ \A i \in DOMAIN ver_items :
               (ver_packaging /\ ~IsRelease(ver_items[i].version))
                   => ver_keys[i].shown
                          = GetVersionSortKey(<< "0", ".", "0", ".", "0" >>, TRUE)
        /\ \A i, j \in DOMAIN ver_items :
               Comparable(ver_keys[i].shown, ver_keys[j].shown)

\* with packaging, a row whose version does not parse and a row with
\* version 1.9 got keys, and the first sorts before the second
C33_Witness ==
    /\ ver_pc = "keyed"
    /\ ver_packaging
    /\ Len(ver_items) = 2
    /\ ver_items[1].version = VerOpaque
    /\ ver_items[2].version = << "1", ".", "9" >>
    /\ SortsBefore(1, 2)


(***************************************************************************)
(* The upgrade specification: upgrade_all_outdated on bounded package      *)
(* lists and outdated maps.                                                *)
(***************************************************************************)
\* what the INSTALLER file of a package can say
UpInstallers == {"pip", "uv", "conda"}

\* allowed_installers of upgrade_all_outdated
AllowedInstallers(package_manager) ==
    IF package_manager = "uv" THEN {"pip", "uv"} ELSE {"pip"}

\* package_map.get(name, {}).get('installer'), "None" when there is none
InstallerOf(packages, name) ==
    IF \E i \in DOMAIN packages : packages[i].name = name
    THEN packages[CHOOSE i \in DOMAIN packages :
                      /\ packages[i].name = name
                      /\ \A j \in DOMAIN packages : packages[j].name = name => j <= i
                 ].installer
    ELSE "None"

\* packages_to_upgrade: the keys of outdated_packages whose package_map
\* entry has an allowed installer
RECURSIVE PackagesToUpgrade(_, _, _)
PackagesToUpgrade(packages, outdated, package_manager) ==
    IF outdated = << >> THEN << >>
    ELSE (IF InstallerOf(packages, Head(outdated).name)
                 \in AllowedInstallers(package_manager)
          THEN << Head(outdated).name >> ELSE << >>)
         \o PackagesToUpgrade(packages, Tail(outdated), package_manager)

UpInit == AppInit /\ FnIdle

\* one more installed package; no two installed names normalize alike
UpAddPackage ==
    /\ up_pc = "input"
    /\ Len(up_packages) < MaxUpPkgs
    /\ \E n \in MtNames, installer \in UpInstallers :
         /\ \A i \in DOMAIN up_packages : Normalize(up_packages[i].name) # Normalize(n)
         /\ up_packages' = Append(up_packages, [name |-> n, installer |-> installer])
    /\ UNCHANGED << up_outdated, up_manager, up_selected, up_pc >>

\* outdated_packages gets one more entry
UpAddOutdated ==
    /\ up_pc = "input"
    /\ Len(up_outdated) < MaxOutdated
    /\ \E k \in MtKeys \ Names(up_outdated) :
         up_outdated' = Append(up_outdated, [name |-> k])
    /\ UNCHANGED << up_packages, up_manager, up_selected, up_pc >>

\* _detect_package_manager finds uv
UpDetectUv ==
    /\ up_pc = "input"
    /\ up_manager = "pip"
    /\ up_manager' = "uv"
    /\ UNCHANGED << up_packages, up_outdated, up_selected, up_pc >>

\* upgrade_all_outdated, up to the confirmation dialog
UpgradeAllOutdated ==
    /\ up_pc = "input"
    /\ up_selected' = PackagesToUpgrade(up_packages, up_outdated, up_manager)
    /\ up_pc' = "done"
    /\ UNCHANGED << up_packages, up_outdated, up_manager >>

UpNext ==
    \/ UpAddPackage /\ UNCHANGED up_frame
    \/ UpAddOutdated /\ UNCHANGED up_frame
    \/ UpDetectUv /\ UNCHANGED up_frame
    \/ UpgradeAllOutdated /\ UNCHANGED up_frame

SpecUpgrade == UpInit /\ [][UpNext]_vars

\* the installed package is among those the upgrade command names (the
\* installer tools resolve a name by its normalized form)
UpSelected(pkg) ==
    \E i \in DOMAIN up_selected : Normalize(up_selected[i]) = Normalize(pkg.name)

\* C34: upgrade_all_outdated selects exactly the installed packages that
\* _is_package_outdated reports as outdated and whose installer is allowed
\* for the active tool.
C34_UpgradeAllSelectsExactly ==
    up_pc = "done" =>
        \A i \in DOMAIN up_packages :
            UpSelected(up_packages[i])
                <=> /\ IsPackageOutdated(up_packages[i].name, up_outdated).found
                    /\ up_packages[i].installer \in AllowedInstallers(up_manager)


(***************************************************************************)
(* Further claims about the application (Spec).                            *)
(***************************************************************************)

\* C35: all_packages never holds two descriptors with the same name,
\* compared case-insensitively.
C35_NamesUniqueInSnapshot ==
    \A i, j \in DOMAIN all_packages :
        Lower(all_packages[i].name) = Lower(all_packages[j].name) => i = j

\* a worker of _scan_for_damaged_packages_task is running; it reads
\* self.current_interpreter, self.all_packages and
\* self.damaged_packages_cache itself, whenever it gets to them
DamagedScanRunning == \E t \in threads : t.target = "damaged"

\* C36: what a running damaged scan reads stays what it was when the scan
\* was launched: no step changes the active environment, the package list
\* or the unparseable-metadata list while the worker is running.
C36_DamagedScanSeesLaunchSnapshot ==
    [][DamagedScanRunning =>
           UNCHANGED << current_interpreter, all_packages, damaged_packages_cache >>]_vars

\* C37: _process_queue always reschedules itself, also after a queued
\* callback raised, so every item put on task_queue gets executed: the
\* root.after that runs it next is always pending.
C37_ProcessQueueStaysScheduled == polling


(***************************************************************************)
(* The sort specification: _populate_tree and _sort_column on bounded      *)
(* snapshots.  A row is told by its iid, the package name.                 *)
(***************************************************************************)
\* install_date_ts: None when get_package_info_modern could not stat the
\* package, else a timestamp
NoDate == [known |-> FALSE, ts |-> 0]

SrtDates == {NoDate, [known |-> TRUE, ts |-> 1], [known |-> TRUE, ts |-> 2]}

SrtSizes == {0, 5}

\* the columns whose heading sorts the tree by a key of the descriptor
SrtColumns == {"Name", "Size", "Date"}

\* the descriptors a scan can deliver for a name
SrtPackage(name) ==
    [name : {name}, size : SrtSizes, install_date_ts : SrtDates]

\* the snapshots a scan can deliver: up to MaxSortPkgs packages, sorted by
\* name as the completion callbacks store them
SrtSnapshots ==
    UNION {{SortByName(q) :
               q \in {q \in [1..n -> UNION {SrtPackage(m) : m \in {nA, nB, nC}}] :
                         \A i, j \in 1..n : q[i].name = q[j].name => i = j}} :
           n \in 0..MaxSortPkgs}

\* next((p for p in self.all_packages if p['name'] == iid), ...)
SrtPackageOf(packages, iid) ==
    packages[CHOOSE i \in DOMAIN packages : packages[i].name = iid]

\* key_func(child) of _sort_column
SortKey(packages, col, iid) ==
    CASE col = "Name" -> Lower(iid)
      [] col = "Size" -> SrtPackageOf(packages, iid).size
      [] col = "Date" -> SrtPackageOf(packages, iid).install_date_ts

\* data.sort compares two keys with <, which raises TypeError when one of
\* them is None; with two rows or more every key takes part in a comparison
SortRaises(packages, col, tree) ==
    /\ Len(tree) >= 2
    /\ col = "Date"
    /\ \E i \in DOMAIN tree : SortKey(packages, col, tree[i]) = NoDate

\* k1 < k2 for two keys of one column
SortKeyLess(col, k1, k2) ==
    CASE col = "Name" -> StrLess(k1, k2)
      [] col = "Size" -> k1 < k2
      [] col = "Date" -> k1.ts < k2.ts

\* data.sort(key=..., reverse=reverse): stable in both directions
RECURSIVE InsertByKey(_, _, _, _, _)
InsertByKey(packages, col, reverse, sorted, iid) ==
    IF sorted = << >> THEN << iid >>
    ELSE LET k == SortKey(packages, col, iid)
             h == SortKey(packages, col, Head(sorted))
         IN IF (IF reverse THEN SortKeyLess(col, h, k) ELSE SortKeyLess(col, k, h))
            THEN << iid >> \o sorted
            ELSE << Head(sorted) >> \o InsertByKey(packages, col, reverse, Tail(sorted), iid)

RECURSIVE SortedTree(_, _, _, _)
SortedTree(packages, col, reverse, tree) ==
    IF tree = << >> THEN << >>
    ELSE InsertByKey(packages, col, reverse,
                     SortedTree(packages, col, reverse, SubSeq(tree, 1, Len(tree) - 1)),
                     tree[Len(tree)])

SrtInit == AppInit /\ FnIdle

\* a load completion is applied: all_packages is replaced and _populate_tree
\* refills the tree and re-applies the last sort
SrtApplySnapshot ==
    \E snapshot \in SrtSnapshots :
        LET tree == [i \in DOMAIN snapshot |-> snapshot[i].name]
        IN /\ srt_all_packages' = snapshot
           /\ IF SortRaises(snapshot, srt_last_sort_column, tree)
              THEN srt_tree' = tree /\ srt_raised' = TRUE
              ELSE /\ srt_tree' = SortedTree(snapshot, srt_last_sort_column,
                                             srt_last_sort_reverse, tree)
                   /\ srt_raised' = FALSE
           /\ UNCHANGED << srt_last_sort_column, srt_last_sort_reverse >>

\* a click on a column heading: _sort_column(col, reverse); the column is
\* remembered only when the sort got through
SrtClickHeading ==
    \E col \in SrtColumns, reverse \in BOOLEAN :
        /\ (col # srt_last_sort_column) => ~reverse
        /\ IF SortRaises(srt_all_packages, col, srt_tree)
           THEN /\ srt_raised' = TRUE
                /\ UNCHANGED << srt_tree, srt_last_sort_column, srt_last_sort_reverse >>
           ELSE /\ srt_tree' = SortedTree(srt_all_packages, col, reverse, srt_tree)
                /\ srt_last_sort_column' = col
                /\ srt_last_sort_reverse' = reverse
                /\ srt_raised' = FALSE
        /\ UNCHANGED srt_all_packages

SrtNext ==
    \/ SrtApplySnapshot /\ UNCHANGED srt_frame
    \/ SrtClickHeading /\ UNCHANGED srt_frame

SpecSort == SrtInit /\ [][SrtNext]_vars

\* C38: applying a scan result never fails while the view is re-sorted by
\* the last chosen column, whatever the snapshot and the column, also by
\* Date when some packages have no install timestamp.
C38_PopulateNeverRaises ==
    [][(srt_all_packages' # srt_all_packages) => ~srt_raised']_vars


(***************************************************************************)
(* A further claim about the V2 application (SpecV2).                      *)
(***************************************************************************)

\* this step is the user starting an install, a delete or a refresh
V2UserStarts == Len(v2_cmds') > Len(v2_cmds) \/ v2_refreshes' # v2_refreshes

\* C39: from _update_ui_state(True) until _on_packages_loaded re-enables
\* the UI the delete control stays disabled, whatever selection events
\* occur, and the user starts no second install, delete or refresh.
C39_BusyBlocksUserCommands ==
    [][/\ V2UserStarts => ~v2_busy
       /\ v2_busy' => ~v2_delete_btn']_vars

=============================================================================
